---- MODULE Spec2Model ----
(***************************************************************************)
(* A model of the Zotero proxy (zotero-proxy/server.py): the paginated     *)
(* fetcher _zotero_batched_request, the bibliography deduplication         *)
(* remove_duplicates, and the GET handler main with the Config and         *)
(* Collections objects it uses.                                            *)
(*                                                                         *)
(* Text the code inspects (bibliographies, collection paths) is a sequence *)
(* of one-character strings; text the code only passes around (ids, keys)  *)
(* is a TLA+ string.                                                       *)
(***************************************************************************)
EXTENDS Integers, Sequences, FiniteSets, TLC

VARIABLES
    \* remove_duplicates applied to a text, and again to its own output
    text,          \* the bibliography handed to the first application
    outs,          \* the values returned so far (at most two)
    warns,         \* the log records of each application
    dedupRaised,   \* TRUE once an application raised IndexError
    \* the remote API and the calls of _zotero_batched_request in progress
    totals,        \* the Total-Results the remote reports, per URL
    fetches,       \* the calls of _zotero_batched_request, in dispatch order
    \* the process and the GET request it is handling
    env,           \* os.environ
    data,          \* COLLECTIONS.data: entity id -> ordered <<path, id>> pairs
    request,       \* the request being handled: [path, args]
    pc,            \* where main is
    config,        \* the request's Config
    children,      \* the descendants found at lines 364-371
    bibliography,  \* main's variable of that name
    logs,          \* the records captured by the request's logger_stream
    calls,         \* the Collections methods called for the request, in order
    responses      \* the responses sent for the request

dedupVars == <<text, outs, warns, dedupRaised>>
fetchVars == <<totals, fetches>>
handlerVars == <<env, data, request, pc, config, children, bibliography, logs,
                 calls, responses>>

vars == <<text, outs, warns, dedupRaised, totals, fetches, env, data, request,
          pc, config, children, bibliography, logs, calls, responses>>

----------------------------------------------------------------------------
(* Bounds of the model *)

\* the number of "\n\n@"-separated pieces of a text given to remove_duplicates
MaxPieces == 3

\* the page sizes and the total counts a single fetch is checked with
MaxLimit == 2
MaxTotal == 5

\* the number of parameters of a request's query string
MaxParams == 1

\* the default of the parameter limit (line 39)
DefaultLimit == 100

----------------------------------------------------------------------------
(* Python's None *)
None == <<"None">>

\* "%s" % x
Str(x) == IF x = None THEN <<"N", "o", "n", "e">> ELSE x

(* Strings as sequences of characters *)
NL == "\n"
Whitespace == {" ", NL}
BlankLine == <<NL, NL>>

\* str.startswith
StartsWith(s, p) ==
    /\ Len(s) >= Len(p)
    /\ SubSeq(s, 1, Len(p)) = p

\* str.strip(): the characters between the first and the last non-whitespace one
Strip(s) ==
    LET keep == {i \in 1..Len(s) : s[i] \notin Whitespace}
    IN  IF keep = {} THEN <<>>
        ELSE SubSeq(s, CHOOSE i \in keep : \A j \in keep : i <= j,
                       CHOOSE i \in keep : \A j \in keep : j <= i)

\* str.split(sep): the pieces between the non-overlapping occurrences of sep,
\* found from the left; i is the scan position, from the start of the piece
RECURSIVE SplitAt(_, _, _, _)
SplitAt(s, sep, i, from) ==
    IF i + Len(sep) - 1 > Len(s) THEN <<SubSeq(s, from, Len(s))>>
    ELSE IF SubSeq(s, i, i + Len(sep) - 1) = sep
         THEN <<SubSeq(s, from, i - 1)>> \o SplitAt(s, sep, i + Len(sep), i + Len(sep))
         ELSE SplitAt(s, sep, i + 1, from)

Split(s, sep) == SplitAt(s, sep, 1, 1)

\* sep.join(parts)
RECURSIVE Join(_, _)
Join(parts, sep) ==
    IF parts = <<>> THEN <<>>
    ELSE IF Len(parts) = 1 THEN parts[1]
    ELSE parts[1] \o sep \o Join(Tail(parts), sep)

----------------------------------------------------------------------------
\* no request is being handled
HandlerIdle ==
    /\ env = <<>>
    /\ data = <<>>
    /\ request = <<>>
    /\ pc = "idle"
    /\ config = <<>>
    /\ children = <<>>
    /\ bibliography = <<>>
    /\ logs = <<>>
    /\ calls = <<>>
    /\ responses = <<>>

----------------------------------------------------------------------------
(* remove_duplicates (server.py 300-328) *)

\* the separator of line 303
EntrySeparator == <<NL, NL, "@">>

\* lines 310-314: an entry as the loop sees it, <<>> when it is skipped
NormaliseEntry(piece) ==
    LET e == Strip(piece)
    IN  IF e = <<>> THEN <<>>
        ELSE IF StartsWith(e, <<"@">>) THEN e
        ELSE <<"@">> \o e

\* line 315: entry.split("{")[1].split(",")[0]; None stands for the IndexError
\* raised when the entry holds no "{"
BibKey(entry) ==
    LET parts == Split(entry, <<"{">>)
    IN  IF Len(parts) < 2 THEN None
        ELSE Split(parts[2], <<",">>)[1]

\* the loop's state before the first entry (lines 305-307)
DedupStart ==
    [all_keys |-> {}, all_entries |-> {}, result |-> <<>>, log |-> <<>>,
     raised |-> FALSE]

\* A plausible slip: an entry is dropped when its key, not its text, was seen.
DedupEntryByKey(acc, piece) ==
    LET entry == NormaliseEntry(piece)
        key == BibKey(entry)
    IN  IF acc.raised \/ entry = <<>> THEN acc
        ELSE IF key = None THEN [acc EXCEPT !.raised = TRUE]
        ELSE IF key \in acc.all_keys
        THEN [acc EXCEPT !.log = @ \o <<[level |-> "WARNING",
                                         msg |-> "Duplicate entry found, deduplicating",
                                         arg |-> key]>>]
        ELSE [acc EXCEPT !.all_entries = @ \cup {entry},
                         !.all_keys = @ \cup {key},
                         !.result = Append(@, entry)]

\* one iteration of the loop of lines 309-323
DedupEntry(acc, piece) ==
    LET entry == NormaliseEntry(piece)
        key == BibKey(entry)
    IN  IF acc.raised \/ entry = <<>> THEN acc
        ELSE IF key = None THEN [acc EXCEPT !.raised = TRUE]
        ELSE IF entry \in acc.all_entries
        THEN [acc EXCEPT !.log = @ \o <<[level |-> "WARNING",
                                         msg |-> "Duplicate entry found, deduplicating",
                                         arg |-> key]>>]
        ELSE [acc EXCEPT !.all_entries = @ \cup {entry},
                         !.all_keys = @ \cup {key},
                         !.result = Append(@, entry),
                         !.log = IF key \in acc.all_keys
                                 THEN @ \o <<[level |-> "WARNING",
                                              msg |-> "Duplicate key found",
                                              arg |-> key]>>
                                 ELSE @]

RECURSIVE DedupLoop(_, _)
DedupLoop(acc, pieces) ==
    IF pieces = <<>> THEN acc
    ELSE DedupLoop(DedupEntry(acc, pieces[1]), Tail(pieces))

\* remove_duplicates: [raised, text, log]; when it raises, text is None and log
\* holds the records emitted before the exception
remove_duplicates(bib) ==
    LET entries == Split(bib, EntrySeparator)
        acc == DedupLoop(DedupStart, entries)
    IN  IF acc.raised
        THEN [raised |-> TRUE, text |-> None, log |-> acc.log]
        ELSE [raised |-> FALSE,
              text |-> Join(acc.result, BlankLine),
              log |-> acc.log \o
                      <<[level |-> "INFO", msg |-> "Removed duplicates",
                         arg |-> Len(entries) - Len(acc.result)],
                        [level |-> "INFO", msg |-> "Returning entries",
                         arg |-> Len(acc.result)]>>]

----------------------------------------------------------------------------
(* The texts remove_duplicates is applied to: every text of at most         *)
(* MaxPieces pieces, each piece one of Pieces, separated by "\n\n@".        *)

Pieces ==
    { <<>>,
      <<"@", "a", "{", "k", ",", "x", "}">>,
      <<"a", "{", "k", ",", "x", "}">>,
      <<"a", "{", "k", ",", "y", "}">>,
      <<"b", "{", "j", ",", "x", "}">>,
      <<" ", "a", "{", "k", ",", "x", "}", NL>>,
      <<"@", " ", "a", "{", "k", ",", "x", "}">>,
      <<"@", "@", "a", "{", "k", ",", "x", "}">>,
      <<"a", "{", "k", "}">>,
      <<"[", "]">> }

RECURSIVE TextsOf(_)
TextsOf(n) ==
    IF n = 0 THEN {}
    ELSE Pieces \cup TextsOf(n - 1)
         \cup {t \o EntrySeparator \o p : t \in TextsOf(n - 1), p \in Pieces}

DedupInputs == TextsOf(MaxPieces)

DedupInit ==
    /\ text \in DedupInputs
    /\ outs = <<>>
    /\ warns = <<>>
    /\ dedupRaised = FALSE
    /\ totals = <<>>
    /\ fetches = <<>>
    /\ HandlerIdle

\* remove_duplicates applied to the text, then to what it returned
ApplyDedup ==
    /\ ~dedupRaised
    /\ Len(outs) < 2
    /\ LET r == remove_duplicates(IF outs = <<>> THEN text ELSE outs[Len(outs)])
       IN  /\ warns' = Append(warns, r.log)
           /\ dedupRaised' = r.raised
           /\ outs' = IF r.raised THEN outs ELSE Append(outs, r.text)
    /\ UNCHANGED <<text, fetchVars, handlerVars>>

DedupNext == ApplyDedup

SpecDedup == DedupInit /\ [][DedupNext]_vars

----------------------------------------------------------------------------
(* The remote API *)

\* a URL of the remote API: the collection listing of an entity, its top
\* items, or the top items of one of its collections (lines 98, 282, 285)
CollectionsUrl(entity_type, group_id) ==
    [entity_type |-> entity_type, group_id |-> group_id, what |-> "collections"]

ItemsUrl(entity_type, group_id, collection_id) ==
    [entity_type |-> entity_type, group_id |-> group_id, what |-> "items",
     collection_id |-> collection_id]

\* what tells a URL's pages from another's
UrlKey(url) == IF url.what = "items" THEN url.collection_id ELSE <<"collections">>

\* the statuses a page is answered with; a request may also time out
Statuses == {"200", "403", "500"}
Outcomes == Statuses \cup {"timeout"}

\* the collections of every entity: A, its child B, and AB, a root whose name
\* begins with A's; the child is listed before its parent
C1 == <<"c", "1">>
C2 == <<"c", "2">>
C3 == <<"c", "3">>
C9 == <<"c", "9">>

RemoteCollections ==
    << [key |-> C2, data |-> [key |-> C2, name |-> <<"B">>, parentCollection |-> C1]],
       [key |-> C3, data |-> [key |-> C3, name |-> <<"A", "B">>, parentCollection |-> None]],
       [key |-> C1, data |-> [key |-> C1, name |-> <<"A">>, parentCollection |-> None]] >>

\* the Total-Results of each URL: the library and each collection (c9 is no
\* collection of the remote), and the collection listing
RemoteTotals ==
    [k \in {None, C1, C2, C3, C9, <<"collections">>} |->
        IF k = <<"collections">> THEN Len(RemoteCollections)
        ELSE IF k = None THEN 2 * DefaultLimit + 50
        ELSE IF k = C1 THEN DefaultLimit + 50
        ELSE IF k = C2 THEN DefaultLimit
        ELSE IF k = C3 THEN 50
        ELSE 0]

\* the body of a page. The collection listing is the list its JSON body
\* parses to. An items page in a bibliography format holds one entry: the same
\* one on every page 1, padded with white space, and an entry of its own on a
\* later page; in another format it holds an empty JSON list.
RemoteText(url, params) ==
    IF url.what = "collections" THEN RemoteCollections
    ELSE IF params.format \notin {<<"b", "i", "b", "t", "e", "x">>,
                                  <<"b", "i", "b", "l", "a", "t", "e", "x">>}
    THEN <<"[", "]">>
    ELSE IF "start" \notin DOMAIN params
    THEN <<"@", "a", "{", "k", ",", "x", "}", NL>>
    ELSE <<"@", "b", "{">> \o Str(UrlKey(url))
         \o <<ToString(params.start), ",", "x", "}">>

----------------------------------------------------------------------------
(* _zotero_response_is_ok (server.py 23-35) and its log records *)

_zotero_response_is_ok(status) == status = "200"

ResponseLog(url, params, status) ==
    <<[level |-> "INFO", msg |-> "Requested", arg |-> <<url, params>>]>>
    \o (IF status # "200"
        THEN <<[level |-> "ERROR", msg |-> "Zotero API returned with code",
                arg |-> status]>>
        ELSE <<>>)
    \o (IF status = "403"
        THEN <<[level |-> "ERROR", msg |-> "Check that the group/collection ID and key are correct",
                arg |-> None]>>
        ELSE <<>>)

----------------------------------------------------------------------------
(* _zotero_batched_request (server.py 38-85) *)

\* range(limit, total, limit) of line 62, as the sequence of its values
RECURSIVE RangeFrom(_, _, _)
RangeFrom(start, stop, step) ==
    IF start >= stop THEN <<>>
    ELSE <<start>> \o RangeFrom(start + step, stop, step)

\* A plausible slip: the last page is asked for even when it starts at total.
NextPagesInclusive(limit, total) == RangeFrom(limit, total + 1, limit)

\* lines 61-63: the starts of the pages after the first
NextPages(limit, total) == RangeFrom(limit, total, limit)

\* the call as it begins (lines 45-51): page 1 is requested with the default
\* parameters and limit, and no start
NewFetch(url, default_parameters, limit) ==
    LET parameters == [p \in DOMAIN default_parameters \cup {"limit"} |->
                          IF p = "limit" THEN limit ELSE default_parameters[p]]
    IN  [url |-> url,
         parameters |-> parameters,
         stage |-> "first",
         requests |-> <<parameters>>,
         status |-> <<"pending">>,
         result |-> <<>>,
         exc |-> "none",
         log |-> <<>>,
         arrived |-> <<>>]

\* line 72: {"start": start, **parameters}
WithStart(parameters, start) ==
    [p \in DOMAIN parameters \cup {"start"} |->
        IF p = "start" THEN start ELSE parameters[p]]

\* A plausible slip: the status of page 1 is not looked at.
FirstPageUnchecked(f, status, has_total, total) ==
    LET logged == [f EXCEPT !.status[1] = status,
                            !.log = @ \o ResponseLog(f.url, f.requests[1], status)]
        starts == NextPages(f.parameters.limit, total)
    IN  IF ~has_total
        THEN [logged EXCEPT !.stage = "raised", !.exc = "KeyError"]
        ELSE [logged EXCEPT
                !.result = <<RemoteText(f.url, f.requests[1])>>,
                !.requests = @ \o [i \in 1..Len(starts) |->
                                      WithStart(f.parameters, starts[i])],
                !.status = @ \o [i \in 1..Len(starts) |-> "pending"],
                !.stage = IF starts = <<>> THEN "returned" ELSE "pages"]

\* lines 52-58: page 1 is answered. A status that is not 200 returns the empty
\* result (line 55); a 200 without the Total-Results header raises KeyError
\* (line 56, has_total = FALSE); otherwise the body is kept and the later
\* pages are all requested (lines 60-75). With no later page, gather has
\* nothing to wait for and the call returns.
FirstPageAnswered(f, status, has_total, total) ==
    LET logged == [f EXCEPT !.status[1] = status,
                            !.log = @ \o ResponseLog(f.url, f.requests[1], status)]
        starts == NextPages(f.parameters.limit, total)
    IN  IF ~_zotero_response_is_ok(status)
        THEN [logged EXCEPT !.stage = "returned"]
        ELSE IF ~has_total
        THEN [logged EXCEPT !.stage = "raised", !.exc = "KeyError"]
        ELSE [logged EXCEPT
                !.result = <<RemoteText(f.url, f.requests[1])>>,
                !.requests = @ \o [i \in 1..Len(starts) |->
                                      WithStart(f.parameters, starts[i])],
                !.status = @ \o [i \in 1..Len(starts) |-> "pending"],
                !.stage = IF starts = <<>> THEN "returned" ELSE "pages"]

\* lines 50-51: the request of page 1 times out; the exception leaves the call
FirstPageTimedOut(f) ==
    [f EXCEPT !.status[1] = "timeout", !.stage = "raised", !.exc = "TimeoutError"]

\* A plausible slip: the loop stops at the first page that is not 200.
RECURSIVE CollectUntilError(_, _)
CollectUntilError(f, i) ==
    IF i > Len(f.requests) THEN f
    ELSE IF ~_zotero_response_is_ok(f.status[i])
    THEN [f EXCEPT !.log = @ \o ResponseLog(f.url, f.requests[i], f.status[i])]
    ELSE CollectUntilError(
             [f EXCEPT !.log = @ \o ResponseLog(f.url, f.requests[i], f.status[i]),
                       !.result = Append(@, RemoteText(f.url, f.requests[i]))],
             i + 1)

\* lines 78-83: the responses are read in the order of their requests
RECURSIVE CollectPages(_, _)
CollectPages(f, i) ==
    IF i > Len(f.requests) THEN f
    ELSE CollectPages(
             [f EXCEPT !.log = @ \o ResponseLog(f.url, f.requests[i], f.status[i]),
                       !.result = IF _zotero_response_is_ok(f.status[i])
                                  THEN Append(@, RemoteText(f.url, f.requests[i]))
                                  ELSE @],
             i + 1)

\* A plausible slip: the bodies are taken as the responses arrive
\* (asyncio.as_completed in place of asyncio.gather).
PagesGatheredAsArrived(f) ==
    LET ok == SelectSeq(f.arrived, LAMBDA i : _zotero_response_is_ok(f.status[i]))
    IN  [CollectPages(f, 2) EXCEPT
            !.stage = "returned",
            !.result = <<f.result[1]>>
                       \o [k \in 1..Len(ok) |-> RemoteText(f.url, f.requests[ok[k]])]]

\* line 77 onwards, once every later page is answered
PagesGathered(f) == [CollectPages(f, 2) EXCEPT !.stage = "returned"]

\* line 77: gather raises as soon as one request raises
PageTimedOut(f, i) ==
    [f EXCEPT !.status[i] = "timeout", !.stage = "raised", !.exc = "TimeoutError"]

(* The steps of the calls in progress *)

\* page 1 of call n is answered, or its request times out
FirstPage(n) ==
    /\ fetches[n].stage = "first"
    /\ \/ \E st \in Statuses, has_total \in BOOLEAN :
            fetches' = [fetches EXCEPT ![n] =
                FirstPageAnswered(@, st, has_total, totals[UrlKey(@.url)])]
       \/ fetches' = [fetches EXCEPT ![n] = FirstPageTimedOut(@)]
    /\ UNCHANGED totals

\* a later page of call n is answered, or its request times out
LaterPage(n) ==
    /\ fetches[n].stage = "pages"
    /\ \E i \in 2..Len(fetches[n].requests) :
        /\ fetches[n].status[i] = "pending"
        /\ \/ \E st \in Statuses :
                fetches' = [fetches EXCEPT ![n].status[i] = st,
                                           ![n].arrived = Append(@, i)]
           \/ fetches' = [fetches EXCEPT ![n] = PageTimedOut(@, i)]
    /\ UNCHANGED totals

\* every later page of call n is answered: the call reads them and returns
Gathered(n) ==
    /\ fetches[n].stage = "pages"
    /\ \A i \in 2..Len(fetches[n].requests) : fetches[n].status[i] \in Statuses
    /\ fetches' = [fetches EXCEPT ![n] = PagesGathered(@)]
    /\ UNCHANGED totals

FetchStep(n) == FirstPage(n) \/ LaterPage(n) \/ Gathered(n)

----------------------------------------------------------------------------
(* One call of _zotero_batched_request on its own: every page size up to    *)
(* MaxLimit with every total up to MaxTotal, and the default page size with *)
(* totals around its multiples.                                             *)

FetchCases ==
    ((1..MaxLimit) \X (0..MaxTotal))
    \cup ({DefaultLimit} \X {DefaultLimit, DefaultLimit + 1, 2 * DefaultLimit + 50})

TestUrl == ItemsUrl("groups", <<"g", "1">>, C1)

ItemParameters(result_format) == [format |-> result_format, itemType |-> "-attachment"]

FetchInit ==
    /\ \E c \in FetchCases :
        /\ totals = [k \in {UrlKey(TestUrl)} |-> c[2]]
        /\ fetches = <<NewFetch(TestUrl, ItemParameters(<<"b", "i", "b", "t", "e", "x">>), c[1])>>
    /\ text = <<>>
    /\ outs = <<>>
    /\ warns = <<>>
    /\ dedupRaised = FALSE
    /\ HandlerIdle

FetchNext ==
    /\ \E n \in 1..Len(fetches) : FetchStep(n)
    /\ UNCHANGED <<dedupVars, handlerVars>>

SpecFetch == FetchInit /\ [][FetchNext]_vars

----------------------------------------------------------------------------
(* Python values the handler compares *)

OnlySelf == <<"o", "n", "l", "y", "-", "s", "e", "l", "f">>
AllStrategy == <<"a", "l", "l">>
Bibtex == <<"b", "i", "b", "t", "e", "x">>
Biblatex == <<"b", "i", "b", "l", "a", "t", "e", "x">>
Json == <<"j", "s", "o", "n">>
TrueText == <<"t", "r", "u", "e">>

\* "not x" for a string or None
Falsy(x) == x = None \/ x = <<>>

\* dict.get(k, default)
Get(d, k, default) == IF k \in DOMAIN d THEN d[k] ELSE default

\* an insertion-ordered dict as the sequence of its <<key, value>> pairs
DictKeys(d) == {d[i][1] : i \in 1..Len(d)}
DictValues(d) == {d[i][2] : i \in 1..Len(d)}
DictGet(d, k) == d[CHOOSE i \in 1..Len(d) : d[i][1] = k][2]
DictSet(d, k, v) ==
    IF k \in DictKeys(d)
    THEN [i \in 1..Len(d) |-> IF d[i][1] = k THEN <<k, v>> ELSE d[i]]
    ELSE Append(d, <<k, v>>)

----------------------------------------------------------------------------
(* Collections (server.py 88-173) *)

\* lines 106-109; <<>> when no collection has the key
get_collection_data(raw_data, collection_id) ==
    LET hits == SelectSeq(raw_data, LAMBDA c : c.key = collection_id)
    IN  IF hits = <<>> THEN <<>> ELSE <<hits[1].data>>

\* lines 111-114 and 163-166: the first name mapped to the id, or None
get_collection_name(collections, collection_id) ==
    LET hits == SelectSeq(collections, LAMBDA c : c[2] = collection_id)
    IN  IF hits = <<>> THEN None ELSE hits[1][1]

\* lines 116-127
RECURSIVE add_collection(_, _, _)
add_collection(raw_data, collections, collection_id) ==
    IF collection_id \in DictKeys(collections) THEN collections
    ELSE LET found == get_collection_data(raw_data, collection_id)
         IN  IF found = <<>> THEN collections
             ELSE LET d == found[1]
                  IN  IF ~Falsy(d.parentCollection)
                      THEN LET with_parent ==
                                   add_collection(raw_data, collections, d.parentCollection)
                               parent_name ==
                                   get_collection_name(with_parent, d.parentCollection)
                           IN  DictSet(with_parent,
                                       Str(parent_name) \o <<"/">> \o d.name, d.key)
                      ELSE DictSet(collections, d.name, d.key)

\* lines 129-130
RECURSIVE AddAll(_, _, _)
AddAll(raw_data, collections, i) ==
    IF i > Len(raw_data) THEN collections
    ELSE AddAll(raw_data, add_collection(raw_data, collections, raw_data[i].key), i + 1)

\* lines 102-104: the parsed pages, one after the other
RECURSIVE Concat(_)
Concat(lists) == IF lists = <<>> THEN <<>> ELSE lists[1] \o Concat(Tail(lists))

\* A plausible slip: a listing without a body leaves the index as it is.
update_from_remote_keep_on_empty(dat, group_id, listing) ==
    LET collections == AddAll(Concat(listing), <<>>, 1)
    IN  [g \in DOMAIN dat \cup {group_id} |->
            IF g = group_id /\ (listing # <<>> \/ g \notin DOMAIN dat)
            THEN collections ELSE dat[g]]

\* lines 100-132, after the listing was fetched: the entity's index is replaced
update_from_remote(dat, group_id, listing) ==
    LET collections == AddAll(Concat(listing), <<>>, 1)
    IN  [g \in DOMAIN dat \cup {group_id} |->
            IF g = group_id THEN collections ELSE dat[g]]

EntityType(is_user) == IF is_user THEN "users" ELSE "groups"

\* the ways the fetch of line 101 can end. The listing of an entity fits one
\* page, so the call ends when page 1 is answered or times out.
RefreshResults(cfg) ==
    LET f == NewFetch(CollectionsUrl(EntityType(cfg.is_user), cfg.group_id),
                      <<>>, DefaultLimit)
    IN  {FirstPageTimedOut(f)}
        \cup {FirstPageAnswered(f, st, has_total, totals[UrlKey(f.url)]) :
                 st \in Statuses, has_total \in BOOLEAN}

\* A plausible slip: an index is kept for each pair of entity id and API key.
CacheKeyWithApiKey(cfg) == cfg.group_id \o <<"@">> \o Str(cfg.key)

\* lines 132 and 142-144: self.data is keyed by group_id, and by nothing else
CacheKey(cfg) == cfg.group_id

\* A plausible slip: the index is refreshed only when the entity has none.
get_collection_id_entity_only(dat, cfg, collection_name, f) ==
    LET gid == cfg.group_id
        refreshed == gid \notin DOMAIN dat
        dat2 == IF refreshed /\ f.stage = "returned"
                THEN update_from_remote(dat, gid, f.result) ELSE dat
    IN  [data |-> dat2,
         calls |-> <<"get_collection_id">>
                   \o (IF refreshed THEN <<"update_from_remote">> ELSE <<>>),
         log |-> IF refreshed THEN f.log ELSE <<>>,
         exc |-> IF refreshed /\ f.stage = "raised" THEN f.exc
                 ELSE IF collection_name \notin DictKeys(dat2[gid]) THEN "KeyError"
                 ELSE "none",
         value |-> IF (refreshed /\ f.stage = "raised")
                      \/ collection_name \notin DictKeys(dat2[gid])
                   THEN None ELSE DictGet(dat2[gid], collection_name)]

\* lines 134-144, with the fetch of a refresh ending as f. exc is the
\* exception that leaves the method ("none": it returns value).
get_collection_id(dat, cfg, collection_name, f) ==
    LET gid == CacheKey(cfg)
        refreshed == gid \notin DOMAIN dat
                     \/ collection_name \notin DictKeys(dat[gid])
        dat2 == IF refreshed /\ f.stage = "returned"
                THEN update_from_remote(dat, gid, f.result) ELSE dat
    IN  [data |-> dat2,
         calls |-> <<"get_collection_id">>
                   \o (IF refreshed THEN <<"update_from_remote">> ELSE <<>>),
         log |-> IF refreshed THEN f.log ELSE <<>>,
         exc |-> IF refreshed /\ f.stage = "raised" THEN f.exc
                 ELSE IF collection_name \notin DictKeys(dat2[gid]) THEN "KeyError"
                 ELSE "none",
         value |-> IF (refreshed /\ f.stage = "raised")
                      \/ collection_name \notin DictKeys(dat2[gid])
                   THEN None ELSE DictGet(dat2[gid], collection_name)]

\* A plausible slip: the '/' after the collection's path is not asked for.
ChildrenOfNamePrefix(index, collection_id) ==
    LET collection_name == get_collection_name(index, collection_id)
    IN  SelectSeq(index, LAMBDA c : StartsWith(c[1], collection_name))

\* lines 168-173
ChildrenOf(index, collection_id) ==
    LET collection_name == get_collection_name(index, collection_id)
    IN  SelectSeq(index, LAMBDA c : StartsWith(c[1], collection_name \o <<"/">>))

\* A plausible slip: "make sure data is fresh" (line 151) is done on every call.
get_collection_children_always_fresh(dat, cfg, collection_id, f) ==
    LET gid == cfg.group_id
        dat2 == IF f.stage = "returned"
                THEN update_from_remote(dat, gid, f.result) ELSE dat
        exc == IF f.stage = "raised" THEN f.exc
               ELSE IF gid \notin DOMAIN dat2 THEN "ValueError"
               ELSE IF collection_id = None THEN "none"
               ELSE IF collection_id \notin DictValues(dat2[gid]) THEN "ValueError"
               ELSE "none"
    IN  [data |-> dat2,
         calls |-> <<"get_collection_children", "update_from_remote">>,
         log |-> f.log,
         exc |-> exc,
         value |-> IF exc # "none" THEN <<>>
                   ELSE IF collection_id = None THEN dat2[gid]
                   ELSE ChildrenOf(dat2[gid], collection_id)]

\* lines 146-173
get_collection_children(dat, cfg, collection_id, f) ==
    LET gid == cfg.group_id
        refreshed == gid \notin DOMAIN dat
                     \/ collection_id \notin DictValues(dat[gid])
        dat2 == IF refreshed /\ f.stage = "returned"
                THEN update_from_remote(dat, gid, f.result) ELSE dat
        exc == IF refreshed /\ f.stage = "raised" THEN f.exc
               ELSE IF gid \notin DOMAIN dat2 THEN "ValueError"
               ELSE IF collection_id = None THEN "none"
               ELSE IF collection_id \notin DictValues(dat2[gid]) THEN "ValueError"
               ELSE "none"
    IN  [data |-> dat2,
         calls |-> <<"get_collection_children">>
                   \o (IF refreshed THEN <<"update_from_remote">> ELSE <<>>),
         log |-> (IF refreshed THEN f.log ELSE <<>>)
                 \o (IF exc = "none" /\ collection_id = None
                     THEN <<[level |-> "INFO",
                             msg |-> "No collection provided, assuming group root-level wanted",
                             arg |-> None]>>
                     ELSE <<>>),
         exc |-> exc,
         value |-> IF exc # "none" THEN <<>>
                   ELSE IF collection_id = None THEN dat2[gid]
                   ELSE ChildrenOf(dat2[gid], collection_id)]

----------------------------------------------------------------------------
(* Config (server.py 179-266) *)

\* A plausible slip: ZOTERO_USER is looked at first.
from_environment_user_first(e) ==
    LET user == Get(e, "ZOTERO_USER", None)
    IN  [group_id |-> IF Falsy(user) THEN Get(e, "ZOTERO_GROUP", None) ELSE user,
         key |-> Get(e, "ZOTERO_KEY", None),
         result_format |-> Get(e, "ZOTERO_FORMAT", Bibtex),
         collection_id |-> None,
         only_self |-> Get(e, "ZOTERO_INCLUSION_STRATEGY", <<>>) = OnlySelf,
         failed_collection_lookup |-> FALSE,
         is_user |-> ~Falsy(user)]

\* lines 189-211
from_environment(e) ==
    LET group == Get(e, "ZOTERO_GROUP", None)
    IN  [group_id |-> IF Falsy(group) THEN Get(e, "ZOTERO_USER", None) ELSE group,
         key |-> Get(e, "ZOTERO_KEY", None),
         result_format |-> Get(e, "ZOTERO_FORMAT", Bibtex),
         collection_id |-> None,
         only_self |-> Get(e, "ZOTERO_INCLUSION_STRATEGY", <<>>) = OnlySelf,
         failed_collection_lookup |-> FALSE,
         is_user |-> Falsy(group)]

\* A plausible slip: a value of the environment is kept when there is one.
MergeQueryEnvironmentFirst(cfg, query_parameters) ==
    [cfg EXCEPT
        !.group_id = IF Falsy(@) THEN Get(query_parameters, "group_id", @) ELSE @,
        !.key = IF Falsy(@) THEN Get(query_parameters, "key", @) ELSE @,
        !.result_format = Get(query_parameters, "format", @),
        !.only_self = IF "inclusion_strategy" \in DOMAIN query_parameters /\ ~@
                      THEN query_parameters["inclusion_strategy"] = OnlySelf
                      ELSE @]

\* lines 215-223
MergeQuery(cfg, query_parameters) ==
    [cfg EXCEPT
        !.group_id = Get(query_parameters, "group_id", @),
        !.key = Get(query_parameters, "key", @),
        !.result_format = Get(query_parameters, "format", @),
        !.only_self = IF "inclusion_strategy" \in DOMAIN query_parameters
                      THEN query_parameters["inclusion_strategy"] = OnlySelf
                      ELSE @]

\* A plausible slip: only the entity id is required.
is_valid_group_only(cfg) == ~Falsy(cfg.group_id)

\* lines 247-266: the value returned
is_valid(cfg) == ~Falsy(cfg.group_id) /\ ~Falsy(cfg.key)

\* lines 247-266: the records logged
ValidityLog(cfg) ==
    (IF Falsy(cfg.group_id)
     THEN <<[level |-> "ERROR", msg |-> "group_id has not been set and is required",
             arg |-> None]>>
     ELSE <<>>)
    \o (IF Falsy(cfg.key)
        THEN <<[level |-> "ERROR", msg |-> "key has not been set and is required",
                arg |-> None]>>
        ELSE <<>>)
    \o (IF Falsy(cfg.group_id) \/ Falsy(cfg.key)
        THEN <<[level |-> "ERROR", msg |-> "Please set the environment variables",
                arg |-> None]>>
        ELSE <<>>)
    \o (IF cfg.result_format \notin {Bibtex, Biblatex}
        THEN <<[level |-> "WARNING",
                msg |-> "This has only been tested with bibtex and biblatex formats",
                arg |-> None]>>
        ELSE <<>>)

\* key[:4]
Prefix(s, n) == SubSeq(s, 1, IF Len(s) < n THEN Len(s) ELSE n)

\* lines 355-361
ConfigLog(cfg) ==
    <<[level |-> "INFO", msg |-> "Using configuration:", arg |-> None],
      [level |-> "INFO", msg |-> "  Entity Type",
       arg |-> IF cfg.is_user THEN <<"U", "s", "e", "r">> ELSE <<"G", "r", "o", "u", "p">>],
      [level |-> "INFO", msg |-> "  Entity ID", arg |-> Str(cfg.group_id)],
      [level |-> "INFO", msg |-> "  Key [omitted...]",
       arg |-> IF Falsy(cfg.key) THEN Str(None) ELSE Prefix(cfg.key, 4)],
      [level |-> "INFO", msg |-> "  Format", arg |-> Str(cfg.result_format)],
      [level |-> "INFO", msg |-> "  Collection ID", arg |-> Str(cfg.collection_id)],
      [level |-> "INFO", msg |-> "  Inclusion Strategy",
       arg |-> IF cfg.only_self THEN OnlySelf ELSE AllStrategy]>>

----------------------------------------------------------------------------
(* get_bibliography (server.py 269-297) *)

\* lines 277-295: the fetch a call of get_bibliography starts
BibliographyFetch(cfg, collection_id) ==
    NewFetch(ItemsUrl(EntityType(cfg.is_user), cfg.group_id, collection_id),
             ItemParameters(cfg.result_format), DefaultLimit)

\* lines 296-297: the value returned once the fetch has returned
BibliographyOf(f) ==
    Join([i \in 1..Len(f.result) |-> Strip(f.result[i])], BlankLine)

----------------------------------------------------------------------------
(* main (server.py 337-410) *)

\* A plausible slip: "except ValueError" in place of "except Exception".
CaughtValueErrorOnly(exc) == exc = "ValueError"

\* line 399: the exceptions the handler's except clause catches. Every
\* exception the calls above raise is an Exception.
Caught(exc) == exc \in {"ValueError", "KeyError", "IndexError", "TimeoutError"}

\* A plausible slip: the flag of the query is not read, the log is always
\* put before the bibliography.
RemoveCommentsNever(args) == FALSE

\* line 351
RemoveComments(args) == Get(args, "remove_comments", None) = TrueText

\* lines 406-410, or the framework's answer to an exception that left main
HttpResponse(args, lg, bib, exc) ==
    IF exc # "none" /\ ~Caught(exc)
    THEN [status |-> "500", mimetype |-> "text/html", comments |-> None,
          bibliography |-> <<>>]
    ELSE [status |-> "200", mimetype |-> "text/plain",
          comments |-> IF RemoveComments(args) THEN None ELSE lg,
          bibliography |-> bib]

\* line 400
ExceptionLog(exc, detail) ==
    IF exc = "none" THEN <<>>
    ELSE <<[level |-> "ERROR", msg |-> "An error occurred", arg |-> <<exc, detail>>]>>

\* main goes on to the step next
GoOn(next, cfg, lg, dat, cl) ==
    /\ pc' = next
    /\ config' = cfg
    /\ logs' = lg
    /\ data' = dat
    /\ calls' = cl

\* lines 399-410: main ends. exc is the exception that ended the try block
\* ("none": it ran to its end), bib the value of bibliography at that point.
Finish(cfg, lg, dat, cl, bib, exc, detail) ==
    /\ pc' = "responded"
    /\ config' = cfg
    /\ logs' = lg \o ExceptionLog(exc, detail)
    /\ data' = dat
    /\ calls' = cl
    /\ bibliography' = bib
    /\ responses' = Append(responses,
                           HttpResponse(request.args, lg \o ExceptionLog(exc, detail),
                                        bib, exc))

\* lines 339-353: a GET request arrives
Receive(path, args) ==
    /\ pc = "idle"
    /\ request' = [path |-> path, args |-> args]
    /\ pc' = "update_from_request"
    /\ config' = from_environment(env)
    /\ children' = <<>>
    /\ bibliography' = <<>>
    /\ logs' = <<>>
    /\ calls' = <<>>
    /\ responses' = <<>>
    /\ fetches' = <<>>
    /\ UNCHANGED <<env, data, totals, dedupVars>>

\* A plausible slip: the flag of the failed lookup is not looked at, and the
\* request goes on with the collection id it has, which is None.
ConfiguredIgnoringFlag(cfg, lg, dat, cl) ==
    GoOn("children", cfg, lg \o ConfigLog(cfg), dat, cl)
    /\ UNCHANGED <<bibliography, responses>>

\* lines 355-363, with the configuration update_from_request left
Configured(cfg, lg, dat, cl) ==
    IF cfg.failed_collection_lookup
    THEN Finish(cfg, lg \o ConfigLog(cfg), dat, cl, bibliography, "ValueError",
                <<"Failed to look up collection ID for path", request.path>>)
    ELSE GoOn("children", cfg, lg \o ConfigLog(cfg), dat, cl)
         /\ UNCHANGED <<bibliography, responses>>

\* A plausible slip: the parameter is looked for under another name, so the
\* path is always what resolves the collection.
HasCollectionParameterNever(query_parameters) == FALSE

\* line 229: the test is of the value's truth, an empty value counts as none
HasCollectionParameter(query_parameters) ==
    ~Falsy(Get(query_parameters, "collection_id", None))

\* lines 354-363: update_from_request (lines 213-245), then the log of the
\* configuration and the check of the lookup
UpdateFromRequest ==
    /\ pc = "update_from_request"
    /\ LET args == request.args
           cfg == MergeQuery(config, args)
           lg == logs \o ValidityLog(cfg)
       IN  IF ~is_valid(cfg)
           THEN Finish(cfg, lg, data, calls, bibliography, "ValueError",
                       <<"Invalid configuration">>)
           ELSE IF HasCollectionParameter(args)
           THEN Configured([cfg EXCEPT !.collection_id = args["collection_id"]],
                           lg, data, calls)
           ELSE IF request.path = <<>>
           THEN Configured([cfg EXCEPT !.collection_id = None],
                           Append(lg, [level |-> "INFO", msg |-> "No collection ID found",
                                       arg |-> None]),
                           data, calls)
           ELSE \E f \in RefreshResults(cfg) :
                   LET r == get_collection_id(data, cfg, request.path, f)
                       lg2 == Append(lg, [level |-> "INFO",
                                          msg |-> "Trying to get collection id from name",
                                          arg |-> request.path]) \o r.log
                   IN  IF r.exc = "KeyError"
                       THEN Configured([cfg EXCEPT !.failed_collection_lookup = TRUE],
                                       Append(lg2, [level |-> "ERROR",
                                                    msg |-> "Collection not found",
                                                    arg |-> request.path]),
                                       r.data, calls \o r.calls)
                       ELSE IF r.exc # "none"
                       THEN Finish(cfg, lg2, r.data, calls \o r.calls, bibliography,
                                   r.exc, <<>>)
                       ELSE Configured([cfg EXCEPT !.collection_id = r.value],
                                       lg2, r.data, calls \o r.calls)
    /\ UNCHANGED <<env, request, children, totals, fetches, dedupVars>>

\* lines 372-375
ChildrenLog(found) ==
    IF found = <<>> THEN <<>>
    ELSE <<[level |-> "INFO", msg |-> "Including sub-collections:", arg |-> None]>>
         \o [i \in 1..Len(found) |->
                [level |-> "INFO", msg |-> "  sub-collection", arg |-> found[i]]]

\* A plausible slip: the descendants are fetched whatever the policy is.
WantsChildrenAlways(cfg) == ~Falsy(cfg.collection_id)

\* line 365
WantsChildren(cfg) == ~cfg.only_self /\ ~Falsy(cfg.collection_id)

\* lines 376-395: one task for the collection (or the library), then one for
\* each descendant
Tasks(cfg, found) ==
    <<BibliographyFetch(cfg, cfg.collection_id)>>
    \o [i \in 1..Len(found) |-> BibliographyFetch(cfg, found[i][2])]

\* lines 364-396: the descendants are looked up and the fetches are started
Dispatch ==
    /\ pc = "children"
    /\ IF WantsChildren(config)
       THEN \E f \in RefreshResults(config) :
               LET r == get_collection_children(data, config, config.collection_id, f)
               IN  IF r.exc # "none"
                   THEN /\ Finish(config, logs \o r.log, r.data, calls \o r.calls,
                                  bibliography, r.exc, <<>>)
                        /\ UNCHANGED <<children, fetches>>
                   ELSE /\ GoOn("gather", config, logs \o r.log \o ChildrenLog(r.value),
                                r.data, calls \o r.calls)
                        /\ children' = r.value
                        /\ fetches' = Tasks(config, r.value)
                        /\ UNCHANGED <<bibliography, responses>>
       ELSE /\ GoOn("gather", config, logs, data, calls)
            /\ children' = <<>>
            /\ fetches' = Tasks(config, <<>>)
            /\ UNCHANGED <<bibliography, responses>>
    /\ UNCHANGED <<env, request, totals, dedupVars>>

\* the records call n logged in this step reach the request's stream
NewRecords(n) ==
    SubSeq(fetches'[n].log, Len(fetches[n].log) + 1, Len(fetches'[n].log))

\* line 396, waiting: one of the fetches takes a step
FetchProgress ==
    /\ pc = "gather"
    /\ \E n \in 1..Len(fetches) :
        /\ FetchStep(n)
        /\ logs' = logs \o NewRecords(n)
    /\ UNCHANGED <<env, data, request, pc, config, children, bibliography, calls,
                   responses, dedupVars>>

\* line 396: gather raises the exception of a fetch that raised; main ends
\* while the other fetches are where they are
GatherRaises ==
    /\ pc = "gather"
    /\ \E n \in 1..Len(fetches) :
        /\ fetches[n].stage = "raised"
        /\ Finish(config, logs, data, calls, bibliography, fetches[n].exc, <<>>)
    /\ UNCHANGED <<env, request, children, totals, fetches, dedupVars>>

\* A plausible slip: the tasks of the descendants are put before the task of
\* the collection itself.
JoinedDescendantsFirst(fs) ==
    Join([n \in 1..Len(fs) |-> BibliographyOf(fs[(n % Len(fs)) + 1])], BlankLine)

\* lines 396-397: gather returns the results in the order of the tasks, and
\* they are joined with a blank line; text is what remove_duplicates is given
Joined(fs) == Join([n \in 1..Len(fs) |-> BibliographyOf(fs[n])], BlankLine)

\* lines 396-398: every fetch returned; the bibliographies are joined, then
\* deduplicated. When remove_duplicates raises, bibliography holds the join.
GatherReturns ==
    /\ pc = "gather"
    /\ \A n \in 1..Len(fetches) : fetches[n].stage = "returned"
    /\ LET joined == Joined(fetches)
           r == remove_duplicates(joined)
       IN  /\ text' = joined
           /\ IF r.raised
              THEN Finish(config, logs \o r.log, data, calls, joined, "IndexError", <<>>)
              ELSE Finish(config, logs \o r.log, data, calls, r.text, "none", <<>>)
    /\ UNCHANGED <<env, request, children, totals, fetches, outs, warns, dedupRaised>>

\* the response is sent and the request's context ends: of what the request
\* made, the entries of COLLECTIONS.data remain
EndRequest ==
    /\ pc = "responded"
    /\ pc' = "idle"
    /\ request' = <<>>
    /\ config' = <<>>
    /\ children' = <<>>
    /\ bibliography' = <<>>
    /\ logs' = <<>>
    /\ calls' = <<>>
    /\ responses' = <<>>
    /\ fetches' = <<>>
    /\ text' = <<>>
    /\ UNCHANGED <<env, data, totals, outs, warns, dedupRaised>>

----------------------------------------------------------------------------
(* The requests and the environments the handler is checked with *)

G1 == <<"g", "1">>
U1 == <<"u", "1">>
Key1 == <<"s", "e", "c", "r", "e", "t">>
Key2 == <<"k", "e", "y", "2">>

Envs ==
    { [v \in {"ZOTERO_GROUP", "ZOTERO_KEY"} |->
          IF v = "ZOTERO_GROUP" THEN G1 ELSE Key1],
      [v \in {"ZOTERO_USER", "ZOTERO_KEY", "ZOTERO_INCLUSION_STRATEGY"} |->
          IF v = "ZOTERO_USER" THEN U1
          ELSE IF v = "ZOTERO_KEY" THEN Key1 ELSE OnlySelf],
      [v \in {"ZOTERO_GROUP", "ZOTERO_FORMAT"} |->
          IF v = "ZOTERO_GROUP" THEN G1 ELSE Biblatex] }

Paths == {<<>>, <<"A">>, <<"A", "/", "B">>, <<"X">>}

\* the values a query parameter is given
QueryValues ==
    [group_id |-> {G1, <<>>},
     key |-> {<<>>, Key2},
     format |-> {Json},
     inclusion_strategy |-> {OnlySelf, AllStrategy},
     collection_id |-> {C1, C9, <<>>},
     remove_comments |-> {TrueText}]

\* the query strings of at most MaxParams parameters
Queries ==
    UNION {
        {q \in [D -> UNION {QueryValues[p] : p \in D}] :
            \A p \in D : q[p] \in QueryValues[p]} :
        D \in {D \in SUBSET DOMAIN QueryValues : Cardinality(D) <= MaxParams} }

Init ==
    /\ env \in Envs
    /\ data = <<>>
    /\ request = <<>>
    /\ pc = "idle"
    /\ config = <<>>
    /\ children = <<>>
    /\ bibliography = <<>>
    /\ logs = <<>>
    /\ calls = <<>>
    /\ responses = <<>>
    /\ totals = RemoteTotals
    /\ fetches = <<>>
    /\ text = <<>>
    /\ outs = <<>>
    /\ warns = <<>>
    /\ dedupRaised = FALSE

\* the steps of main after the request arrived
Progress ==
    \/ UpdateFromRequest
    \/ Dispatch
    \/ FetchProgress
    \/ GatherRaises
    \/ GatherReturns
    \/ EndRequest

Next ==
    \/ \E path \in Paths, args \in Queries : Receive(path, args)
    \/ Progress

Spec == Init /\ [][Next]_vars

\* line 396 is done waiting: a fetch raised, or every fetch returned, and main
\* runs to its end. A step of Next that is such a step is GatherRaises or
\* GatherReturns, and one of the two can be taken whenever the wait is over.
GatherDone ==
    /\ pc = "gather"
    /\ \/ \E n \in 1..Len(fetches) : fetches[n].stage = "raised"
       \/ \A n \in 1..Len(fetches) : fetches[n].stage = "returned"
    /\ pc' = "responded"

\* The event loop runs a coroutine that can run, and every remote request is
\* answered or times out (timeout=30, lines 51 and 73). The fairness of the
\* last step is stated on pc, which every such step changes.
FairSpec ==
    /\ Spec
    /\ WF_vars(UpdateFromRequest \/ Dispatch \/ FetchProgress \/ EndRequest)
    /\ WF_pc(GatherDone)

----------------------------------------------------------------------------
(* Claims about _zotero_batched_request, checked under SpecFetch *)

\* the starts a call has asked for, in the order of its requests
StartsOf(f) ==
    LET later == SelectSeq(f.requests, LAMBDA r : "start" \in DOMAIN r)
    IN  [i \in 1..Len(later) |-> later[i].start]

SeqRange(seq) == {seq[i] : i \in 1..Len(seq)}

\* the call went past line 56: page 1 was answered 200 with a total
PastFirstPage(f) ==
    /\ f.status[1] = "200"
    /\ f.exc # "KeyError"

\* C7: a call issues one first request without start; once page 1 is answered
\* 200 with total T, it has issued one request for each positive multiple of the
\* page size L below T, each once, and none at or above T; none at all when
\* T <= L.
C7_PageStarts ==
    \A n \in 1..Len(fetches) :
        LET f == fetches[n]
            L == f.parameters.limit
            T == totals[UrlKey(f.url)]
        IN  /\ "start" \notin DOMAIN f.requests[1]
            /\ Len(StartsOf(f)) = Len(f.requests) - 1
            /\ \A i \in 1..Len(f.requests) : f.requests[i].limit = L
            /\ ~PastFirstPage(f) => Len(f.requests) = 1
            /\ PastFirstPage(f) =>
                /\ SeqRange(StartsOf(f)) = {s \in 1..(T - 1) : s % L = 0}
                /\ Cardinality(SeqRange(StartsOf(f))) = Len(StartsOf(f))
                /\ (T <= L => Len(f.requests) = 1)

\* C7's case: total 250 with page size 100 asks for the starts 100 and 200
C7_Witness ==
    \E n \in 1..Len(fetches) :
        /\ PastFirstPage(fetches[n])
        /\ fetches[n].parameters.limit = 100
        /\ totals[UrlKey(fetches[n].url)] = 250
        /\ StartsOf(fetches[n]) = <<100, 200>>

\* the later pages of a call that were answered 200
OkPages(f) == {i \in 1..Len(f.requests) : f.status[i] = "200"}

\* C8: when a call whose page 1 was answered 200 returns, its result holds the
\* body of every page answered 200, page 1 included, each once, and no body of
\* a page answered otherwise.
C8_ExactlyOkBodies ==
    \A n \in 1..Len(fetches) :
        LET f == fetches[n]
        IN  (f.stage = "returned" /\ f.status[1] = "200") =>
                /\ SeqRange(f.result) =
                       {RemoteText(f.url, f.requests[i]) : i \in OkPages(f)}
                /\ Len(f.result) = Cardinality(OkPages(f))

\* C8's case: of three pages the one at start 200 is not answered 200, and the
\* result holds the two other bodies
C8_Witness ==
    \E n \in 1..Len(fetches) :
        LET f == fetches[n]
        IN  /\ f.stage = "returned"
            /\ StartsOf(f) = <<100, 200>>
            /\ f.status = <<"200", "200", "500">>
            /\ Len(f.result) = 2

\* the pages of a call in the order their requests were made
PageNumbers(f) == [i \in 1..Len(f.requests) |-> i]

\* C23: a call whose page 1 was answered 200 returns the body of page 1, then
\* the bodies of the later pages answered 200 in the order of their requests,
\* which is that of their starts, in whatever order the responses arrived.
C23_BodiesInRequestOrder ==
    \A n \in 1..Len(fetches) :
        LET f == fetches[n]
            ok == SelectSeq(PageNumbers(f), LAMBDA i : f.status[i] = "200")
        IN  (f.stage = "returned" /\ f.status[1] = "200") =>
                /\ f.result = [k \in 1..Len(ok) |-> RemoteText(f.url, f.requests[ok[k]])]
                /\ ok[1] = 1
                /\ \A i \in 2..Len(f.requests) :
                        i > 2 => f.requests[i].start > f.requests[i - 1].start

\* C23's case: the page at start 200 was answered before the page at start
\* 100, and the result has the page at start 100 first
C23_Witness ==
    \E n \in 1..Len(fetches) :
        LET f == fetches[n]
        IN  /\ f.stage = "returned"
            /\ f.arrived = <<3, 2>>
            /\ f.status = <<"200", "200", "200">>
            /\ f.result = <<RemoteText(f.url, f.requests[1]),
                            RemoteText(f.url, f.requests[2]),
                            RemoteText(f.url, f.requests[3])>>
            /\ f.requests[2].start < f.requests[3].start

----------------------------------------------------------------------------
(* Claims about remove_duplicates, checked under SpecDedup *)

\* the input of the k-th application
DedupInput(k) == IF k = 1 THEN text ELSE outs[k - 1]

\* the entries of a text, as line 303 and lines 310-314 delimit them
RECURSIVE NonEmpty(_)
NonEmpty(seq) ==
    IF seq = <<>> THEN <<>>
    ELSE IF seq[1] = <<>> THEN NonEmpty(Tail(seq))
    ELSE <<seq[1]>> \o NonEmpty(Tail(seq))

InputEntries(t) ==
    LET pieces == Split(t, EntrySeparator)
    IN  NonEmpty([i \in 1..Len(pieces) |-> NormaliseEntry(pieces[i])])

\* the elements of seq at the positions of idx, in increasing position
RECURSIVE PickFrom(_, _, _)
PickFrom(seq, idx, i) ==
    IF i > Len(seq) THEN <<>>
    ELSE (IF i \in idx THEN <<seq[i]>> ELSE <<>>) \o PickFrom(seq, idx, i + 1)

FirstOccurrences(E) == {i \in 1..Len(E) : \A j \in 1..(i - 1) : E[j] # E[i]}

KeyCollisions(E) ==
    {i \in FirstOccurrences(E) : \E j \in 1..(i - 1) : BibKey(E[j]) = BibKey(E[i])}

LogArgs(log, m) ==
    LET hits == SelectSeq(log, LAMBDA r : r.msg = m)
    IN  [i \in 1..Len(hits) |-> hits[i].arg]

\* C5: whenever remove_duplicates returns, its value is the blank-line join of
\* the first occurrence of each distinct entry text of its input, in the input's
\* order: an entry whose text was seen is dropped, an entry whose key was seen
\* with another text is kept, and exactly these kept entries get a
\* "Duplicate key found" warning.
C5_FirstOccurrencesKept ==
    \A k \in 1..Len(outs) :
        LET E == InputEntries(DedupInput(k))
            keys == [i \in 1..Len(E) |-> BibKey(E[i])]
        IN  /\ outs[k] = Join(PickFrom(E, FirstOccurrences(E), 1), BlankLine)
            /\ LogArgs(warns[k], "Duplicate key found")
                   = PickFrom(keys, KeyCollisions(E), 1)
            /\ LogArgs(warns[k], "Duplicate entry found, deduplicating")
                   = PickFrom(keys, (1..Len(E)) \ FirstOccurrences(E), 1)

\* C5's case: one application dropped a repeated text and kept a colliding key
C5_Witness ==
    /\ Len(outs) >= 1
    /\ LogArgs(warns[1], "Duplicate key found") # <<>>
    /\ LogArgs(warns[1], "Duplicate entry found, deduplicating") # <<>>
    /\ Len(InputEntries(text)) > Len(InputEntries(outs[1]))

\* C6: remove_duplicates applied to a value it returned returns that value.
C6_Idempotent ==
    Len(outs) = 2 => outs[2] = outs[1]


----------------------------------------------------------------------------
(* Claims about main, checked under Spec and FairSpec *)

\* main is between the arrival of the request and its return
Handling == pc \in {"update_from_request", "children", "gather"}

\* the except clause of line 399 ran: its record is the last of the stream
Failed == logs # <<>> /\ logs[Len(logs)].msg = "An error occurred"

FailedWith(exc) == Failed /\ logs[Len(logs)].arg[1] = exc

\* the collection ids of the bibliography fetches, in the order of the tasks
FetchedIds == [n \in 1..Len(fetches) |-> fetches[n].url.collection_id]

\* C1: every GET request ends with exactly one response, of status 200 and
\* content type text/plain: no response is sent while main runs, the one sent
\* when it ends is 200 text/plain, and main always ends.
C1_OneOkResponse ==
    /\ [](/\ pc # "responded" => responses = <<>>
          /\ pc = "responded" =>
                /\ Len(responses) = 1
                /\ responses[1].status = "200"
                /\ responses[1].mimetype = "text/plain")
    /\ (Handling ~> pc = "responded")

\* C1, its case: a request whose fetch raised is answered
C1_Witness ==
    /\ pc = "responded"
    /\ fetches # <<>>
    /\ FailedWith("TimeoutError")
    /\ responses[1].status = "200"

\* C2: a request whose lookup failed ends at once with the error: no
\* bibliography fetch is started, no descendants are looked up, and the
\* response holds no entry.
C2_FailedLookupFetchesNothing ==
    (pc # "idle" /\ config.failed_collection_lookup) =>
        /\ pc = "responded"
        /\ fetches = <<>>
        /\ "get_collection_children" \notin SeqRange(calls)
        /\ FailedWith("ValueError")
        /\ responses[1].bibliography = <<>>

\* C2, its case: the path is unknown after the refresh the lookup made
C2_Witness ==
    /\ pc = "responded"
    /\ config.failed_collection_lookup
    /\ "update_from_remote" \in SeqRange(calls)
    /\ config.group_id \in DOMAIN data
    /\ data[config.group_id] # <<>>
    /\ request.path \notin DictKeys(data[config.group_id])
    /\ responses[1].bibliography = <<>>

\* C3: once the query is merged into the configuration, an empty entity id or
\* key ends the request with the invalid-configuration error: no method of
\* Collections was called, no fetch was started, the response holds no entry.
C3_InvalidConfigurationFirst ==
    (pc \in {"children", "gather", "responded"}
     /\ (Falsy(config.group_id) \/ Falsy(config.key))) =>
        /\ pc = "responded"
        /\ calls = <<>>
        /\ fetches = <<>>
        /\ FailedWith("ValueError")
        /\ logs[Len(logs)].arg[2] = <<"Invalid configuration">>
        /\ responses[1].bibliography = <<>>

\* C3, its case: a request with a path to look up and no key
C3_Witness ==
    /\ pc = "responded"
    /\ request.path # <<>>
    /\ ~Falsy(config.group_id)
    /\ Falsy(config.key)
    /\ calls = <<>>

\* C4: the step that starts the fetches. With a collection and only-self it
\* starts one fetch, of that collection, and calls nothing; with no collection
\* it starts one fetch, of the library, and calls nothing; with a collection
\* and policy all it looks the descendants up and, when the lookup returns,
\* starts the collection's fetch and then one for each entry returned, in
\* their order (when the lookup raises, the request ends with no fetch). No
\* fetch is added while the fetches are waited for.
C4_FetchesByPolicy ==
    [][/\ (pc = "children" /\ pc' # "children") =>
            LET cid == config.collection_id
                found == [i \in 1..Len(children') |-> children'[i][2]]
                looked == "get_collection_children" \in SeqRange(calls')
            IN  /\ (~Falsy(cid) /\ config.only_self) =>
                        (FetchedIds' = <<cid>> /\ ~looked /\ pc' = "gather")
                /\ Falsy(cid) =>
                        (FetchedIds' = <<None>> /\ ~looked /\ pc' = "gather")
                /\ (~Falsy(cid) /\ ~config.only_self) =>
                        /\ looked
                        /\ pc' = "gather" => FetchedIds' = <<cid>> \o found
                        /\ pc' # "gather" => (fetches' = <<>> /\ Failed')
       /\ pc = "gather" => FetchedIds' = FetchedIds
      ]_vars

\* C4, its case: policy all and a collection with a descendant
C4_Witness ==
    /\ pc = "gather"
    /\ ~config.only_self
    /\ config.collection_id = C1
    /\ Len(children) = 1
    /\ FetchedIds = <<C1, C2>>

\* page 1 of the call was answered with a status that is not 200
PageOneRefused(f) == f.status[1] \in Statuses \ {"200"}

\* C9: a fetch whose page 1 is answered with a status that is not 200 has
\* returned the empty result, raised nothing and made that one request; and
\* when every fetch of the request returned, the response is the bibliography
\* of the other fetches (when remove_duplicates returns).
C9_RefusedFirstPage ==
    /\ \A n \in 1..Len(fetches) :
          PageOneRefused(fetches[n]) =>
              /\ fetches[n].stage = "returned"
              /\ fetches[n].exc = "none"
              /\ fetches[n].result = <<>>
              /\ Len(fetches[n].requests) = 1
    /\ (/\ pc = "responded"
        /\ \E n \in 1..Len(fetches) : PageOneRefused(fetches[n])
        /\ \A n \in 1..Len(fetches) : fetches[n].stage = "returned") =>
            LET others == SelectSeq(fetches, LAMBDA f : ~PageOneRefused(f))
                r == remove_duplicates(
                         Join([n \in 1..Len(others) |-> BibliographyOf(others[n])],
                              BlankLine))
            IN  /\ responses[1].status = "200"
                /\ IF r.raised THEN FailedWith("IndexError")
                   ELSE ~Failed /\ responses[1].bibliography = r.text

\* C9, its case: the collection's page 1 is refused, and the response holds
\* the entries of its descendant
C9_Witness ==
    /\ pc = "responded"
    /\ Len(fetches) = 2
    /\ PageOneRefused(fetches[1])
    /\ fetches[2].result # <<>>
    /\ ~Failed
    /\ responses[1].bibliography # <<>>

\* the page requests of the bibliography fetches that timed out
TimedOut ==
    {p \in UNION {{<<n, i>> : i \in 1..Len(fetches[n].status)} : n \in 1..Len(fetches)} :
        fetches[p[1]].status[p[2]] = "timeout"}

\* C10: a request in which one page request timed out, and a page of its
\* fetches was received, does not fail: its response holds entries.
C10_TimeoutDropsOnlyItsPage ==
    (/\ pc = "responded"
     /\ Cardinality(TimedOut) = 1
     /\ \E n \in 1..Len(fetches) : fetches[n].result # <<>>) =>
        /\ ~Failed
        /\ responses[1].bibliography # <<>>

----------------------------------------------------------------------------
(* Claims about the lookup of the path and the configuration, under Spec *)

\* how many times x occurs in seq
Count(seq, x) == Len(SelectSeq(seq, LAMBDA c : c = x))

\* the path is a key of the index cached for the entity
Cached(dat, group_id, path) ==
    /\ group_id \in DOMAIN dat
    /\ path \in DictKeys(dat[group_id])

\* C11: in the step that resolves the configuration, when the path is looked
\* up, the index is refreshed exactly when the path is not a key of the index
\* cached for the entity before the step (or the entity has none): a cached
\* path is answered from the cache, which stays as it is, and a lookup that
\* fails made exactly one refresh.
C11_RefreshWhenNotCached ==
    [][(pc = "update_from_request"
        /\ "get_collection_id" \in SeqRange(calls')) =>
            LET gid == config'.group_id
                refreshes == Count(calls', "update_from_remote")
            IN  /\ calls'[1] = "get_collection_id"
                /\ refreshes = IF Cached(data, gid, request.path) THEN 0 ELSE 1
                /\ Cached(data, gid, request.path) =>
                        /\ data' = data
                        /\ ~config'.failed_collection_lookup
                        /\ config'.collection_id = DictGet(data[gid], request.path)
                /\ config'.failed_collection_lookup => refreshes = 1
      ]_vars

\* C11, its case: a path the cache holds is resolved with no refresh
C11_Witness ==
    /\ pc = "children"
    /\ calls = <<"get_collection_id">>
    /\ request.path = <<"A", "/", "B">>
    /\ config.collection_id = C2

----------------------------------------------------------------------------
(* The index on its own: update_from_remote applied to a listing, then      *)
(* get_collection_children asked for the descendants of an id or of None.   *)
(* The listings are the well-formed sets of collections with ids of         *)
(* IndexIds and names of IndexNames (no cycle, every parent in the set,     *)
(* sibling names distinct), in every order. One name is also an id.         *)

IndexIds == {C1, C2, C3}
IndexNames == {<<"A">>, <<"A", "B">>, C2}

\* the ancestors of x under the parent map p, up to k levels
RECURSIVE Ancestors(_, _, _)
Ancestors(p, x, k) ==
    IF k = 0 \/ p[x] = None THEN {}
    ELSE {p[x]} \cup Ancestors(p, p[x], k - 1)

WellFormed(S, p, nm) ==
    /\ \A x \in S : x \notin Ancestors(p, x, Cardinality(S))
    /\ \A x, y \in S : (x # y /\ p[x] = p[y]) => nm[x] # nm[y]

\* the collections of S as the remote lists them in the order o
Listing(S, p, nm, o) ==
    [i \in 1..Cardinality(S) |->
        [key |-> o[i],
         data |-> [key |-> o[i], name |-> nm[o[i]], parentCollection |-> p[o[i]]]]]

Listings ==
    UNION { UNION { UNION {
        { Listing(S, p, nm, o) :
            o \in {q \in [1..Cardinality(S) -> S] :
                      \A i, j \in 1..Cardinality(S) : q[i] = q[j] => i = j} } :
          nm \in {n \in [S -> IndexNames] : WellFormed(S, p, n)} } :
          p \in [S -> S \cup {None}] } :
          S \in SUBSET IndexIds }

\* the configuration of the calls: the group of the first environment
IndexConfig(collection_id) ==
    [from_environment([v \in {"ZOTERO_GROUP", "ZOTERO_KEY"} |->
                          IF v = "ZOTERO_GROUP" THEN <<"g", "1">>
                          ELSE <<"s", "e", "c", "r", "e", "t">>])
        EXCEPT !.collection_id = collection_id]

\* the fetch of line 101 returned the listing; nothing is cached
IndexInit ==
    /\ \E listing \in Listings :
          fetches = <<[FirstPageAnswered(
                          NewFetch(CollectionsUrl("groups", <<"g", "1">>), <<>>, DefaultLimit),
                          "200", TRUE, Len(listing))
                       EXCEPT !.result = <<listing>>]>>
    /\ totals = <<>>
    /\ env = <<>>
    /\ data = <<>>
    /\ request = <<>>
    /\ pc = "idle"
    /\ config = IndexConfig(None)
    /\ children = <<>>
    /\ bibliography = <<>>
    /\ logs = <<>>
    /\ calls = <<>>
    /\ responses = <<>>
    /\ text = <<>>
    /\ outs = <<>>
    /\ warns = <<>>
    /\ dedupRaised = FALSE

\* lines 102-132: the index of the group is built from the listing
Refresh ==
    /\ pc = "idle"
    /\ data' = update_from_remote(data, config.group_id, fetches[1].result)
    /\ calls' = <<"update_from_remote">>
    /\ pc' = "refreshed"
    /\ UNCHANGED <<env, request, config, children, bibliography, logs, responses,
                   fetchVars, dedupVars>>

\* lines 146-173: the descendants of an id, or of None, are asked for; a
\* refresh the call makes gets the same listing
Descendants(collection_id) ==
    /\ pc = "refreshed"
    /\ LET cfg == IndexConfig(collection_id)
           r == get_collection_children(data, cfg, collection_id, fetches[1])
       IN  /\ config' = cfg
           /\ data' = r.data
           /\ calls' = calls \o r.calls
           /\ children' = r.value
           /\ pc' = IF r.exc = "none" THEN "returned" ELSE "raised"
    /\ UNCHANGED <<env, request, bibliography, logs, responses, fetchVars, dedupVars>>

IndexNext ==
    \/ Refresh
    \/ \E collection_id \in IndexIds \cup {None} : Descendants(collection_id)

SpecIndex == IndexInit /\ [][IndexNext]_vars

----------------------------------------------------------------------------
(* Claims about the index, checked under SpecIndex *)

\* the listing the refresh was answered with
Listed == fetches[1].result[1]

\* the names of the collection's ancestors and its own, from the root, joined
\* with "/"
RECURSIVE PathOf(_, _)
PathOf(listing, collection_id) ==
    LET d == get_collection_data(listing, collection_id)[1]
    IN  IF d.parentCollection = None THEN d.name
        ELSE PathOf(listing, d.parentCollection) \o <<"/">> \o d.name

\* C12: after the refresh of a well-formed listing the index holds one entry
\* for each collection listed, from the collection's path to its id, and no
\* other entry.
C12_IndexOfEveryCollection ==
    pc # "idle" =>
        LET index == data[config.group_id]
        IN  /\ Len(index) = Len(Listed)
            /\ SeqRange(index) =
                   {<<PathOf(Listed, Listed[i].key), Listed[i].key>> : i \in 1..Len(Listed)}

\* C13: get_collection_children(None) returns the entries of the index, each
\* once; for an id of the index it returns, each once, the entries whose path
\* is the path of the id, then "/", then more: not the entry of the id, and
\* no entry whose path only begins with the same characters.
C13_Descendants ==
    pc = "returned" =>
        LET index == data[config.group_id]
            id == config.collection_id
        IN  /\ \A i, j \in 1..Len(children) : children[i] = children[j] => i = j
            /\ id = None => SeqRange(children) = SeqRange(index)
            /\ id # None =>
                  /\ id \in DictValues(index)
                  /\ SeqRange(children) =
                        {e \in SeqRange(index) :
                            \E q \in SeqRange(index) :
                                /\ q[2] = id
                                /\ Len(e[1]) > Len(q[1])
                                /\ SubSeq(e[1], 1, Len(q[1]) + 1) = q[1] \o <<"/">>}
                  /\ \A i \in 1..Len(children) : children[i][2] # id

\* C13, its case: A has the child AB, and a root is named AB as well
C13_Witness ==
    /\ pc = "returned"
    /\ config.collection_id = C1
    /\ <<<<"A">>, C1>> \in SeqRange(data[config.group_id])
    /\ <<<<"A", "B">>, C3>> \in SeqRange(data[config.group_id])
    /\ children = << <<<<"A", "/", "A", "B">>, C2>> >>

\* the configuration holds the request's merged values
Merged == pc \in {"children", "gather", "responded"}

\* C14: in the merged configuration each of entity id, key, format and
\* inclusion policy is the value of its query parameter when the request has
\* the parameter, and the value of the environment, or its default, when not.
C14_QueryOverEnvironment ==
    Merged =>
        LET a == request.args
        IN  /\ config.group_id =
                  IF "group_id" \in DOMAIN a THEN a["group_id"]
                  ELSE IF "ZOTERO_GROUP" \in DOMAIN env THEN env["ZOTERO_GROUP"]
                  ELSE IF "ZOTERO_USER" \in DOMAIN env THEN env["ZOTERO_USER"]
                  ELSE None
            /\ config.key =
                  IF "key" \in DOMAIN a THEN a["key"]
                  ELSE IF "ZOTERO_KEY" \in DOMAIN env THEN env["ZOTERO_KEY"]
                  ELSE None
            /\ config.result_format =
                  IF "format" \in DOMAIN a THEN a["format"]
                  ELSE IF "ZOTERO_FORMAT" \in DOMAIN env THEN env["ZOTERO_FORMAT"]
                  ELSE Bibtex
            /\ config.only_self =
                  IF "inclusion_strategy" \in DOMAIN a
                  THEN a["inclusion_strategy"] = OnlySelf
                  ELSE /\ "ZOTERO_INCLUSION_STRATEGY" \in DOMAIN env
                       /\ env["ZOTERO_INCLUSION_STRATEGY"] = OnlySelf

\* C14, its case: the key of the query replaces the key of the environment
C14_Witness ==
    /\ pc = "gather"
    /\ "ZOTERO_KEY" \in DOMAIN env
    /\ "key" \in DOMAIN request.args
    /\ config.key = Key2
    /\ config.key # env["ZOTERO_KEY"]

\* the step of update_from_request that gets past is_valid (line 225) with a
\* collection_id parameter in the query
ResolvesWithParameter ==
    /\ pc = "update_from_request"
    /\ pc' # "update_from_request"
    /\ "collection_id" \in DOMAIN request.args
    /\ ~Falsy(config'.group_id)
    /\ ~Falsy(config'.key)

\* what C15 promises of such a step
ParameterVerbatim ==
    /\ config'.collection_id = request.args["collection_id"]
    /\ calls' = calls
    /\ data' = data
    /\ ~config'.failed_collection_lookup

\* C15, as stated: whenever the query has a collection_id parameter, the
\* resolved collection id is its value, whatever the path is, and the
\* resolution calls no method of the index, makes no refresh and does not set
\* failed_collection_lookup.
C15_CollectionParameterVerbatim ==
    [][ResolvesWithParameter => ParameterVerbatim]_vars

\* C15, amended: the same for every collection_id parameter whose value is
\* not empty.
C15_NonEmptyParameterVerbatim ==
    [][(ResolvesWithParameter /\ request.args["collection_id"] # <<>>)
            => ParameterVerbatim]_vars

\* C15, its case: an id the remote does not have, on a path the remote does
\* not have, is taken as it is and nothing was looked up
C15_Witness ==
    /\ pc = "children"
    /\ request.path = <<"X">>
    /\ "collection_id" \in DOMAIN request.args
    /\ request.args["collection_id"] = C9
    /\ config.collection_id = C9
    /\ calls = <<>>

\* the request asked for a body without the log
Suppressed ==
    /\ "remove_comments" \in DOMAIN request.args
    /\ request.args["remove_comments"] = TrueText

\* main ended for a path the index does not have after its refresh
UnknownPathAnswered ==
    /\ pc = "responded"
    /\ config.failed_collection_lookup

\* the log of the response has the record of line 244 for the request's path
HasNotFoundDiagnostic(resp) ==
    /\ Len(resp.comments) > 1
    /\ \E i \in 1..Len(resp.comments) :
            /\ resp.comments[i].msg = "Collection not found"
            /\ resp.comments[i].arg = request.path

\* C16, as stated: the response to a GET request whose path is unknown after
\* the refresh has the collection-not-found diagnostic and no entry of a
\* bibliography, whatever the other query parameters are.
C16_UnknownPathDiagnostic ==
    UnknownPathAnswered =>
        /\ HasNotFoundDiagnostic(responses[1])
        /\ responses[1].bibliography = <<>>

\* C16, amended: the same unless remove_comments is "true"; then the response
\* has no log and no entry of a bibliography.
C16_UnknownPathDiagnosticUnlessSuppressed ==
    UnknownPathAnswered =>
        /\ responses[1].status = "200"
        /\ responses[1].bibliography = <<>>
        /\ ~Suppressed => HasNotFoundDiagnostic(responses[1])
        /\ Suppressed => Len(responses[1].comments) = 1 /\ responses[1].comments = None

\* C16, its case: an unknown path with other parameters in the query, and
\* the diagnostic in the response
C16_Witness ==
    /\ UnknownPathAnswered
    /\ request.path = <<"X">>
    /\ "inclusion_strategy" \in DOMAIN request.args
    /\ "update_from_remote" \in SeqRange(calls)
    /\ HasNotFoundDiagnostic(responses[1])

\* the text k is a part of the text s
Contains(s, k) ==
    \E j \in 0..(Len(s) - Len(k)) : SubSeq(s, j + 1, j + Len(k)) = k

\* the records whose argument is made from the key (line 358)
KeyRecords == {i \in 1..Len(logs) : logs[i].msg = "  Key [omitted...]"}

\* C18: while a request with a non-empty key is handled, and in its response,
\* no record of the log has the complete key in it. The record of line 358 is
\* the one made from the key; the URL of line 52 carries no key.
C18_NoCompleteKeyLogged ==
    (pc # "idle" /\ ~Falsy(config.key)) =>
        \A i \in KeyRecords : ~Contains(logs[i].arg, config.key)

\* C18 for the keys of more than four characters: the record has the first
\* four characters only
C18_LongKeyCut ==
    (pc # "idle" /\ ~Falsy(config.key) /\ Len(config.key) > 4) =>
        \A i \in KeyRecords :
            /\ ~Contains(logs[i].arg, config.key)
            /\ logs[i].arg = SubSeq(config.key, 1, 4)

----------------------------------------------------------------------------
(* head_handler (server.py 331-335): HEAD requests between the GET requests *)

\* line 335: Response("", mimetype="text/plain")
EmptyResponse ==
    [status |-> "200", mimetype |-> "text/plain", comments |-> None,
     bibliography |-> <<>>]

\* A plausible slip: the probe validates the URL by looking the path up, which
\* refreshes the index of the environment's entity.
head_handler_with_lookup(path) ==
    /\ responses' = <<EmptyResponse>>
    /\ calls' = <<"get_collection_id", "update_from_remote">>
    /\ data' = [g \in {from_environment(env).group_id} |-> <<>>]
    /\ UNCHANGED fetches

\* lines 333-335: the response is made, nothing else is touched
head_handler(path) ==
    /\ responses' = <<EmptyResponse>>
    /\ UNCHANGED <<data, fetches, calls>>

\* lines 331-335: a HEAD request arrives and is answered
HeadRequest(path, args) ==
    /\ pc = "idle"
    /\ request' = [path |-> path, args |-> args, method |-> "HEAD"]
    /\ pc' = "responded"
    /\ head_handler(path)
    /\ UNCHANGED <<env, totals, config, children, bibliography, logs, dedupVars>>

HeadNext ==
    \/ \E path \in Paths, args \in Queries : HeadRequest(path, args)
    \/ Next

SpecHead == Init /\ [][HeadNext]_vars

----------------------------------------------------------------------------
(* Claims about head_handler, checked under SpecHead *)

\* C17: a HEAD request, on every path, with every query, in every environment
\* and with every cache the GET requests before it left, is answered at once
\* with status 200 and an empty body; the step starts no fetch, calls no
\* method of Collections and leaves the cache as it is.
C17_HeadTouchesNothing ==
    [][(pc = "idle" /\ "method" \in DOMAIN request') =>
            /\ pc' = "responded"
            /\ Len(responses') = 1
            /\ responses'[1].status = "200"
            /\ responses'[1].bibliography = <<>>
            /\ responses'[1].comments = None
            /\ fetches' = <<>>
            /\ calls' = <<>>
            /\ data' = data
            /\ totals' = totals
      ]_vars

\* C17, its case: a HEAD request for an unknown path, with a query, when the
\* index of the entity is cached
C17_Witness ==
    /\ pc = "responded"
    /\ "method" \in DOMAIN request
    /\ request.path = <<"X">>
    /\ DOMAIN request.args # {}
    /\ G1 \in DOMAIN data
    /\ data[G1] # <<>>
    /\ responses = <<EmptyResponse>>

----------------------------------------------------------------------------
(* Two GET requests at once. app.run (line 413) serves every request in a
   thread of its own; COLLECTIONS (line 176) and logger (line 17) are the
   objects of the module, shared by the threads. In this part pc, request,
   config, logs, responses and fetches are functions of the thread; fetches
   holds the locals of the thread's call of update_from_remote and its
   bibliography fetch. *)

Threads == {1, 2}

\* the listing after collection B was moved to the root and AB was deleted
MovedCollections ==
    << [key |-> C1, data |-> [key |-> C1, name |-> <<"A">>, parentCollection |-> None]],
       [key |-> C2, data |-> [key |-> C2, name |-> <<"B">>, parentCollection |-> None]] >>

\* what the remote lists when asked: it changes between two refreshes
ListingVersions == {RemoteCollections, MovedCollections}

ConcurrentPaths == {<<"A">>, <<"B">>}

\* every bibliography fits one page
ConcurrentTotals ==
    [k \in DOMAIN RemoteTotals |->
        IF k = <<"collections">> THEN Len(RemoteCollections) ELSE 1]

ConcurrentEnv ==
    [v \in {"ZOTERO_GROUP", "ZOTERO_KEY", "ZOTERO_INCLUSION_STRATEGY"} |->
        IF v = "ZOTERO_GROUP" THEN G1
        ELSE IF v = "ZOTERO_KEY" THEN Key1 ELSE OnlySelf]

\* line 349 to line 403: the thread's handler is among logger's handlers
Attached(q) == pc[q] \notin {"idle", "responded"}

\* the records as thread r emits them
Tag(r, lg) ==
    [i \in 1..Len(lg) |->
        [level |-> lg[i].level, msg |-> lg[i].msg, arg |-> lg[i].arg, by |-> r]]

\* logger.info and its kin: the record goes to every handler of logger
Emit(r, lg) ==
    [q \in Threads |-> IF Attached(q) THEN logs[q] \o Tag(r, lg) ELSE logs[q]]

\* the locals of a thread with no call in progress
NoLocals == [fetch |-> <<>>, raw_data |-> <<>>, collections |-> <<>>, i |-> 1]

ConcurrentInit ==
    /\ env = ConcurrentEnv
    /\ totals = ConcurrentTotals
    /\ data = <<>>
    /\ pc = [r \in Threads |-> "idle"]
    /\ request = [r \in Threads |-> <<>>]
    /\ config = [r \in Threads |-> <<>>]
    /\ logs = [r \in Threads |-> <<>>]
    /\ responses = [r \in Threads |-> <<>>]
    /\ fetches = [r \in Threads |-> NoLocals]
    /\ children = <<>>
    /\ bibliography = <<>>
    /\ calls = <<>>
    /\ text = <<>>
    /\ outs = <<>>
    /\ warns = <<>>
    /\ dedupRaised = FALSE

\* lines 339-354: the request of thread r arrives
Arrive(r, path) ==
    /\ pc[r] = "idle"
    /\ request' = [request EXCEPT ![r] = [path |-> path, args |-> <<>>]]
    /\ config' = [config EXCEPT ![r] = from_environment(env)]
    /\ pc' = [pc EXCEPT ![r] = "update_from_request"]
    /\ UNCHANGED <<env, totals, data, logs, responses, fetches, children,
                   bibliography, calls, dedupVars>>

\* lines 399-410 in thread r
FinishThread(r, cfg, lg, bib, exc, detail) ==
    /\ pc' = [pc EXCEPT ![r] = "responded"]
    /\ config' = [config EXCEPT ![r] = cfg]
    /\ logs' = Emit(r, lg \o ExceptionLog(exc, detail))
    /\ responses' = [responses EXCEPT ![r] =
                        <<HttpResponse(request[r].args, logs'[r], bib, exc)>>]

\* thread r goes on to the step next
GoOnThread(r, next, cfg, lg) ==
    /\ pc' = [pc EXCEPT ![r] = next]
    /\ config' = [config EXCEPT ![r] = cfg]
    /\ logs' = Emit(r, lg)
    /\ UNCHANGED responses

\* lines 215-235 and 142: the path is looked up in the index as it is now
LookUp(r) ==
    /\ pc[r] = "update_from_request"
    /\ LET cfg == MergeQuery(config[r], request[r].args)
           gid == cfg.group_id
           lg == ValidityLog(cfg)
                 \o <<[level |-> "INFO", msg |-> "Trying to get collection id from name",
                       arg |-> request[r].path]>>
       IN  IF gid \in DOMAIN data /\ request[r].path \in DictKeys(data[gid])
           THEN /\ GoOnThread(r, "configured",
                              [cfg EXCEPT !.collection_id =
                                              DictGet(data[gid], request[r].path)], lg)
                /\ UNCHANGED fetches
           ELSE /\ GoOnThread(r, "listing", cfg, lg)
                /\ fetches' = [fetches EXCEPT ![r].fetch =
                                  NewFetch(CollectionsUrl(EntityType(cfg.is_user), gid),
                                           <<>>, DefaultLimit)]
    /\ UNCHANGED <<env, totals, data, request, children, bibliography, calls, dedupVars>>

\* the ways the listing asked for at line 101 is answered
ListingOutcomes(f) ==
    {FirstPageTimedOut(f)}
    \cup {FirstPageAnswered(f, "403", TRUE, 0), FirstPageAnswered(f, "200", FALSE, 0)}
    \cup {[FirstPageAnswered(f, "200", TRUE, Len(v)) EXCEPT !.result = <<v>>] :
             v \in ListingVersions}

\* lines 101-104 and 243-245: the listing of thread r's refresh is answered
ListingAnswered(r) ==
    /\ pc[r] = "listing"
    /\ \E f \in ListingOutcomes(fetches[r].fetch) :
          IF f.exc = "KeyError"
          THEN /\ GoOnThread(r, "configured",
                             [config[r] EXCEPT !.failed_collection_lookup = TRUE],
                             f.log \o <<[level |-> "ERROR", msg |-> "Collection not found",
                                         arg |-> request[r].path]>>)
               /\ fetches' = [fetches EXCEPT ![r] = NoLocals]
          ELSE IF f.exc # "none"
          THEN /\ FinishThread(r, config[r], f.log, <<>>, f.exc, <<>>)
               /\ fetches' = [fetches EXCEPT ![r] = NoLocals]
          ELSE /\ GoOnThread(r, "building", config[r], f.log)
               /\ fetches' = [fetches EXCEPT ![r] =
                                 [fetch |-> f, raw_data |-> Concat(f.result),
                                  collections |-> <<>>, i |-> 1]]
    /\ UNCHANGED <<env, totals, data, request, children, bibliography, calls, dedupVars>>

\* A plausible slip: the map is built in place, in self.data[group_id].
PublishedWhileBuilding(dat, group_id, collections, finished) ==
    [g \in DOMAIN dat \cup {group_id} |->
        IF g = group_id THEN collections ELSE dat[g]]

\* lines 100 and 132: collections is a local of the call until the loop of
\* line 129 is over; then one assignment puts it in self.data
Published(dat, group_id, collections, finished) ==
    IF finished
    THEN [g \in DOMAIN dat \cup {group_id} |->
             IF g = group_id THEN collections ELSE dat[g]]
    ELSE dat

\* lines 129-132: one round of the loop of thread r's refresh, or, the loop
\* over, the assignment of line 132
AddOrPublish(r) ==
    /\ pc[r] = "building"
    /\ LET l == fetches[r]
           gid == config[r].group_id
       IN  IF l.i <= Len(l.raw_data)
           THEN LET added == add_collection(l.raw_data, l.collections,
                                            l.raw_data[l.i].key)
                IN  /\ fetches' = [fetches EXCEPT ![r].collections = added,
                                                  ![r].i = l.i + 1]
                    /\ data' = Published(data, gid, added, FALSE)
                    /\ UNCHANGED pc
           ELSE /\ data' = Published(data, gid, l.collections, TRUE)
                /\ pc' = [pc EXCEPT ![r] = "return"]
                /\ UNCHANGED fetches
    /\ UNCHANGED <<env, totals, request, config, logs, responses, children,
                   bibliography, calls, dedupVars>>

\* lines 144 and 243-245: the id is read from the index as it is now
ReturnId(r) ==
    /\ pc[r] = "return"
    /\ LET gid == config[r].group_id
       IN  IF request[r].path \in DictKeys(data[gid])
           THEN GoOnThread(r, "configured",
                           [config[r] EXCEPT !.collection_id =
                                                 DictGet(data[gid], request[r].path)],
                           <<>>)
           ELSE GoOnThread(r, "configured",
                           [config[r] EXCEPT !.failed_collection_lookup = TRUE],
                           <<[level |-> "ERROR", msg |-> "Collection not found",
                              arg |-> request[r].path]>>)
    /\ fetches' = [fetches EXCEPT ![r] = NoLocals]
    /\ UNCHANGED <<env, totals, data, request, children, bibliography, calls, dedupVars>>

\* lines 355-395: the configuration is logged; the lookup failed, or the
\* fetch of the collection is started (the policy is only-self)
StartFetch(r) ==
    /\ pc[r] = "configured"
    /\ IF config[r].failed_collection_lookup
       THEN /\ FinishThread(r, config[r], ConfigLog(config[r]), <<>>, "ValueError",
                            <<"Failed to look up collection ID for path", request[r].path>>)
            /\ UNCHANGED fetches
       ELSE /\ GoOnThread(r, "gather", config[r], ConfigLog(config[r]))
            /\ fetches' = [fetches EXCEPT ![r].fetch =
                              BibliographyFetch(config[r], config[r].collection_id)]
    /\ UNCHANGED <<env, totals, data, request, children, bibliography, calls, dedupVars>>

\* lines 396-410: the fetch of thread r ends and the response is made
BibliographyAnswered(r) ==
    /\ pc[r] = "gather"
    /\ \E f \in {FirstPageTimedOut(fetches[r].fetch)}
                \cup {FirstPageAnswered(fetches[r].fetch, st, TRUE,
                                        totals[UrlKey(fetches[r].fetch.url)]) :
                         st \in {"200", "403"}} :
          IF f.exc # "none"
          THEN FinishThread(r, config[r], f.log, <<>>, f.exc, <<>>)
          ELSE LET joined == BibliographyOf(f)
                   d == remove_duplicates(joined)
               IN  IF d.raised
                   THEN FinishThread(r, config[r], f.log \o d.log, joined,
                                     "IndexError", <<>>)
                   ELSE FinishThread(r, config[r], f.log \o d.log, d.text, "none", <<>>)
    /\ fetches' = [fetches EXCEPT ![r] = NoLocals]
    /\ UNCHANGED <<env, totals, data, request, children, bibliography, calls, dedupVars>>

ConcurrentNext ==
    \E r \in Threads :
        \/ \E path \in ConcurrentPaths : Arrive(r, path)
        \/ LookUp(r)
        \/ ListingAnswered(r)
        \/ AddOrPublish(r)
        \/ ReturnId(r)
        \/ StartFetch(r)
        \/ BibliographyAnswered(r)

SpecConcurrent == ConcurrentInit /\ [][ConcurrentNext]_vars

----------------------------------------------------------------------------
(* Claims about concurrent requests, checked under SpecConcurrent *)

\* the indexes a finished refresh can have made: of a listing of the remote,
\* or of no collection when the listing was refused
CompleteIndexes ==
    { <<>>,
      << <<<<"A">>, C1>>, <<<<"A", "/", "B">>, C2>>, <<<<"A", "B">>, C3>> >>,
      << <<<<"A">>, C1>>, <<<<"B">>, C2>> >> }

\* C19: whatever two requests and their refreshes of the same entity do, and
\* in whatever order, the index of the entity that a reader finds in
\* COLLECTIONS.data is absent or is the whole index one refresh made: no map
\* that is still being built, and no map with entries of two refreshes.
C19_IndexOfOneRefresh ==
    \A g \in DOMAIN data : data[g] \in CompleteIndexes

\* C19, its case: the index of one refresh is in place while the other
\* thread's refresh, of the other listing, has its map half built
C19_Witness ==
    /\ G1 \in DOMAIN data
    /\ data[G1] = << <<<<"A">>, C1>>, <<<<"B">>, C2>> >>
    /\ \E r \in Threads :
          /\ pc[r] = "building"
          /\ fetches[r].raw_data = RemoteCollections
          /\ fetches[r].collections = << <<<<"A">>, C1>>, <<<<"A", "/", "B">>, C2>> >>

\* C20: the log in the response of each of two concurrent GET requests has
\* the records the handling of that request emitted, and none the handling
\* of the other request emitted.
C20_LogOfOwnRequest ==
    \A r \in Threads :
        responses[r] # <<>> =>
            \A i \in 1..Len(responses[r][1].comments) :
                responses[r][1].comments[i].by = r

----------------------------------------------------------------------------
(* update_from_remote (server.py 100-132) call by call, on listings whose
   parent links may name a collection the listing does not have, or go round
   in a cycle. calls is the stack of the calls of add_collection in progress,
   fetches holds the locals of update_from_remote. *)

\* the depth at which the interpreter raises RecursionError; it is 1000 in
\* CPython and is kept small here, above the number of collections
RecursionLimit == 6

RefreshNames ==
    [x \in IndexIds |-> IF x = C1 THEN <<"A">> ELSE IF x = C2 THEN <<"B">> ELSE <<"C">>]

\* every listing of one to three collections with any parent links: None, a
\* collection of the listing or not, itself; in every order
AnyListings ==
    UNION { UNION {
        { Listing(S, p, RefreshNames, o) :
            o \in {q \in [1..Cardinality(S) -> S] :
                      \A i, j \in 1..Cardinality(S) : q[i] = q[j] => i = j} } :
          p \in [S -> IndexIds \cup {None, C9}] } :
          S \in (SUBSET IndexIds) \ {{}} }

\* what COLLECTIONS.data holds before the refresh: nothing, or an older index
\* of the group
EarlierCaches ==
    {<<>>, [g \in {G1} |-> << <<<<"O">>, C1>> >>]}

RefreshInit ==
    /\ \E listing \in AnyListings :
          fetches = <<[raw_data |-> listing, collections |-> <<>>, i |-> 1]>>
    /\ data \in EarlierCaches
    /\ calls = <<>>
    /\ pc = "building"
    /\ config = IndexConfig(None)
    /\ totals = <<>>
    /\ env = <<>>
    /\ request = <<>>
    /\ children = <<>>
    /\ bibliography = <<>>
    /\ logs = <<>>
    /\ responses = <<>>
    /\ text = <<>>
    /\ outs = <<>>
    /\ warns = <<>>
    /\ dedupRaised = FALSE

\* the stack without its top
Pop(stack) == SubSeq(stack, 1, Len(stack) - 1)

\* lines 129-130: the loop calls add_collection for the next collection
LoopRound ==
    /\ pc = "building"
    /\ calls = <<>>
    /\ fetches[1].i <= Len(fetches[1].raw_data)
    /\ calls' = <<[collection_id |-> fetches[1].raw_data[fetches[1].i].key,
                   at |-> "enter"]>>
    /\ fetches' = [fetches EXCEPT ![1].i = @ + 1]
    /\ UNCHANGED <<pc, data, config, totals, env, request, children, bibliography,
                   logs, responses, dedupVars>>

\* lines 117-123 and 126-127 of the call on top of the stack: it returns, or
\* calls add_collection for the parent; a call beyond the interpreter's limit
\* raises RecursionError, which leaves update_from_remote before line 132
AddCollectionEnter ==
    /\ pc = "building"
    /\ calls # <<>>
    /\ calls[Len(calls)].at = "enter"
    /\ LET l == fetches[1]
           collection_id == calls[Len(calls)].collection_id
           found == get_collection_data(l.raw_data, collection_id)
       IN  IF collection_id \in DictKeys(l.collections) \/ found = <<>>
           THEN /\ calls' = Pop(calls)
                /\ UNCHANGED <<pc, fetches>>
           ELSE IF Falsy(found[1].parentCollection)
           THEN /\ fetches' = [fetches EXCEPT ![1].collections =
                                  DictSet(@, found[1].name, found[1].key)]
                /\ calls' = Pop(calls)
                /\ UNCHANGED pc
           ELSE IF Len(calls) >= RecursionLimit
           THEN /\ pc' = "raised"
                /\ calls' = <<>>
                /\ UNCHANGED fetches
           ELSE /\ calls' = Append([calls EXCEPT ![Len(calls)].at = "after_parent"],
                                   [collection_id |-> found[1].parentCollection,
                                    at |-> "enter"])
                /\ UNCHANGED <<pc, fetches>>
    /\ UNCHANGED <<data, config, totals, env, request, children, bibliography,
                   logs, responses, dedupVars>>

\* lines 124-125 of the call on top of the stack, after the call for the
\* parent returned
AddCollectionAfterParent ==
    /\ pc = "building"
    /\ calls # <<>>
    /\ calls[Len(calls)].at = "after_parent"
    /\ LET l == fetches[1]
           d == get_collection_data(l.raw_data, calls[Len(calls)].collection_id)[1]
           parent_name == get_collection_name(l.collections, d.parentCollection)
       IN  fetches' = [fetches EXCEPT ![1].collections =
                          DictSet(@, Str(parent_name) \o <<"/">> \o d.name, d.key)]
    /\ calls' = Pop(calls)
    /\ UNCHANGED <<pc, data, config, totals, env, request, children, bibliography,
                   logs, responses, dedupVars>>

\* line 132, the loop over
PublishIndex ==
    /\ pc = "building"
    /\ calls = <<>>
    /\ fetches[1].i > Len(fetches[1].raw_data)
    /\ data' = Published(data, config.group_id, fetches[1].collections, TRUE)
    /\ pc' = "published"
    /\ UNCHANGED <<calls, fetches, config, totals, env, request, children,
                   bibliography, logs, responses, dedupVars>>

RefreshNext ==
    \/ LoopRound
    \/ AddCollectionEnter
    \/ AddCollectionAfterParent
    \/ PublishIndex

SpecRefresh == RefreshInit /\ [][RefreshNext]_vars

----------------------------------------------------------------------------
(* Claims about the refresh of a malformed listing, under SpecRefresh *)

\* the keys of the listing, and its parent links
KeysOf(raw_data) == {raw_data[j].key : j \in 1..Len(raw_data)}
ParentOf(raw_data, x) ==
    raw_data[CHOOSE j \in 1..Len(raw_data) : raw_data[j].key = x].data.parentCollection

\* the collections reached from x by k parent links or fewer, one at least
RECURSIVE Upwards(_, _, _)
Upwards(raw_data, x, k) ==
    IF k = 0 \/ x \notin KeysOf(raw_data) \/ Falsy(ParentOf(raw_data, x)) THEN {}
    ELSE {ParentOf(raw_data, x)} \cup Upwards(raw_data, ParentOf(raw_data, x), k - 1)

\* a collection is among its own ancestors
HasCycle(raw_data) ==
    \E x \in KeysOf(raw_data) : x \in Upwards(raw_data, x, Len(raw_data))

\* a collection names a parent the listing does not have
HasMissingParent(raw_data) ==
    \E x \in KeysOf(raw_data) :
        /\ ~Falsy(ParentOf(raw_data, x))
        /\ ParentOf(raw_data, x) \notin KeysOf(raw_data)

\* the recursive definition of the index and the calls one by one agree on
\* the listings without a cycle
RefreshAgrees ==
    (pc = "published" /\ ~HasCycle(fetches[1].raw_data)) =>
        data[config.group_id] = AddAll(fetches[1].raw_data, <<>>, 1)

\* C21: on a listing whose parent links have a cycle the calls of
\* add_collection in progress are never more than the collections of the
\* listing and the call that finds the collection visited again.
C21_CycleFoundWithinCollections ==
    Len(calls) <= Len(fetches[1].raw_data) + 1

\* what the code does on a cycle: it recurses up to the interpreter's limit,
\* then the refresh raises
C21_CycleEndsAtRecursionLimit ==
    /\ Len(calls) <= RecursionLimit
    /\ pc = "raised" => HasCycle(fetches[1].raw_data)
    /\ pc = "published" => ~HasCycle(fetches[1].raw_data)

\* C22: a refresh of a listing in which a collection's parent is missing, or
\* whose parent links have a cycle, never changes COLLECTIONS.data: the index
\* cached before stays as it was and no index with a path made from the
\* missing parent is put in its place.
C22_BrokenListingKeepsIndex ==
    [][(HasMissingParent(fetches[1].raw_data) \/ HasCycle(fetches[1].raw_data))
            => data' = data]_vars

\* what the code does: a cycle keeps the index (the refresh raises), a missing
\* parent without a cycle publishes an index with the path "None/<name>"
C22_MissingParentPublished ==
    /\ pc = "raised" => data \in EarlierCaches
    /\ (pc = "published" /\ HasMissingParent(fetches[1].raw_data)) =>
            \E e \in SeqRange(data[config.group_id]) :
                StartsWith(e[1], <<"N", "o", "n", "e", "/">>)

----------------------------------------------------------------------------
(* Lines 376-410 on their own, for a collection with two descendants: the
   request GET /?collection_id=c1 with policy all, from the point where the
   three fetches were started. *)

\* collection A with the children B and C, the children listed in either order
FamilyListings ==
    { << [key |-> C1, data |-> [key |-> C1, name |-> <<"A">>, parentCollection |-> None]],
         [key |-> x, data |-> [key |-> x, name |-> RefreshNames[x], parentCollection |-> C1]],
         [key |-> y, data |-> [key |-> y, name |-> RefreshNames[y], parentCollection |-> C1]] >> :
      <<x, y>> \in {<<C2, C3>>, <<C3, C2>>} }

\* the collection itself fits one page, each child has a second page
FamilyTotals ==
    [k \in {C1, C2, C3} |-> IF k = C1 THEN 1 ELSE DefaultLimit + 50]

AssembleInit ==
    /\ env = [v \in {"ZOTERO_GROUP", "ZOTERO_KEY"} |->
                 IF v = "ZOTERO_GROUP" THEN G1 ELSE Key1]
    /\ totals = FamilyTotals
    /\ \E listing \in FamilyListings :
          data = update_from_remote(<<>>, G1, <<listing>>)
    /\ request = [path |-> <<>>, args |-> [collection_id |-> C1]]
    /\ config = [from_environment(env) EXCEPT !.collection_id = C1]
    /\ children = ChildrenOf(data[G1], C1)
    /\ fetches = Tasks(config, children)
    /\ pc = "gather"
    /\ calls = <<"get_collection_children">>
    /\ logs = ConfigLog(config) \o ChildrenLog(children)
    /\ bibliography = <<>>
    /\ responses = <<>>
    /\ text = <<>>
    /\ outs = <<>>
    /\ warns = <<>>
    /\ dedupRaised = FALSE

AssembleNext ==
    \/ FetchProgress
    \/ GatherRaises
    \/ GatherReturns

SpecAssemble == AssembleInit /\ [][AssembleNext]_vars

----------------------------------------------------------------------------
(* Claims about the assembly of the bibliography, under SpecAssemble *)

\* every fetch of the request returned and main went past line 396
Assembled ==
    /\ pc = "responded"
    /\ fetches # <<>>
    /\ \A n \in 1..Len(fetches) : fetches[n].stage = "returned"

\* the positions in the log of the records of the requests of collection c
RequestedAt(c) ==
    {i \in 1..Len(logs) : logs[i].msg = "Requested" /\ UrlKey(logs[i].arg[1]) = c}

\* C24: the text given to remove_duplicates is the result of the fetch of the
\* collection (or of the library), then the results of the fetches of the
\* descendants in the order get_collection_children returned them, with a
\* blank line between two results, in whatever order the fetches ended.
C24_JoinedInTaskOrder ==
    Assembled =>
        /\ Len(fetches) = 1 + Len(children)
        /\ UrlKey(fetches[1].url) = config.collection_id
        /\ \A i \in 1..Len(children) : UrlKey(fetches[i + 1].url) = children[i][2]
        /\ text = BibliographyOf(fetches[1]) \o <<NL, NL>>
                  \o BibliographyOf(fetches[2]) \o <<NL, NL>>
                  \o BibliographyOf(fetches[3])

\* C24's case: get_collection_children returned c3 before c2; the fetch of
\* c2 ended first, then that of c3, and page 1 of c1 was answered last; the
\* text has the results for c1, c3 and c2 in this order
C24_Witness ==
    /\ Assembled
    /\ children = << <<<<"A", "/", "C">>, C3>>, <<<<"A", "/", "B">>, C2>> >>
    /\ \A n \in 1..3 : Len(fetches[n].result) = Len(fetches[n].requests)
    /\ \A i \in RequestedAt(C2), j \in RequestedAt(C3) : i < j
    /\ \A i \in RequestedAt(C3), j \in RequestedAt(C1) : i < j
    /\ text = BibliographyOf(fetches[1]) \o BlankLine \o BibliographyOf(fetches[2])
              \o BlankLine \o BibliographyOf(fetches[3])
    /\ BibliographyOf(fetches[2]) # BibliographyOf(fetches[3])
    /\ UrlKey(fetches[2].url) = C3

\* C25: the response is made when every fetch started for the request has
\* ended, by returning or by raising; a fetch that fails does not let main
\* respond while another fetch is still waiting for a page.
C25_RespondsAfterEveryFetch ==
    pc = "responded" =>
        \A n \in 1..Len(fetches) : fetches[n].stage \in {"returned", "raised"}

\* what the code does: main waits for every fetch unless one of them raises
C25_WaitsUnlessOneRaises ==
    (pc = "responded" /\ \A n \in 1..Len(fetches) : fetches[n].stage # "raised") =>
        \A n \in 1..Len(fetches) : fetches[n].stage = "returned"

----------------------------------------------------------------------------
(* Claims about the lookup of the descendants, under Spec *)

\* the id is a value of the index cached for the entity
CachedValue(dat, group_id, collection_id) ==
    /\ group_id \in DOMAIN dat
    /\ collection_id \in DictValues(dat[group_id])

\* C26: in the step that calls get_collection_children for a collection id,
\* the index is refreshed once when the id is not a value of the index cached
\* for the entity, and not at all when it is; when the refresh returned and
\* the id is still not a value, the call fails with ValueError, "Collection
\* not found": the request has no descendants and starts no fetch.
C26_DescendantsOfUnknownId ==
    [][(pc = "children" /\ Len(calls') > Len(calls)) =>
        LET gid == config.group_id
            id == config.collection_id
            new == SubSeq(calls', Len(calls) + 1, Len(calls'))
            last == logs'[Len(logs')]
            ended == pc' = "responded" /\ last.msg = "An error occurred"
            refreshRaised == ended /\ last.arg[1] \in {"TimeoutError", "KeyError"}
        IN  /\ new[1] = "get_collection_children"
            /\ Count(new, "update_from_remote")
                    = IF CachedValue(data, gid, id) THEN 0 ELSE 1
            /\ CachedValue(data, gid, id) => data' = data /\ pc' = "gather"
            /\ (~CachedValue(data, gid, id) /\ ~refreshRaised) =>
                    IF CachedValue(data', gid, id)
                    THEN pc' = "gather"
                    ELSE /\ ended
                         /\ last.arg[1] = "ValueError"
                         /\ children' = <<>>
                         /\ fetches' = <<>>
                         /\ responses'[1].bibliography = <<>>
      ]_vars

\* C26, its case: c9 is no collection of the remote; the refresh returned the
\* three collections and the request failed
C26_Witness ==
    /\ pc = "responded"
    /\ config.collection_id = C9
    /\ calls = <<"get_collection_children", "update_from_remote">>
    /\ FailedWith("ValueError")
    /\ G1 \in DOMAIN data
    /\ Len(data[G1]) = 3
    /\ children = <<>>
    /\ fetches = <<>>

----------------------------------------------------------------------------
(* The entity of a request (server.py 189-223, 97-98, 278-285): lines 353-354
   and the URLs made from the configuration, for every setting of
   ZOTERO_GROUP and ZOTERO_USER *)

\* a variable the environment does not have
Unset == <<"unset">>

EnvOf(group, user) ==
    [v \in {"ZOTERO_KEY"}
           \cup (IF group = Unset THEN {} ELSE {"ZOTERO_GROUP"})
           \cup (IF user = Unset THEN {} ELSE {"ZOTERO_USER"}) |->
        IF v = "ZOTERO_KEY" THEN Key1
        ELSE IF v = "ZOTERO_GROUP" THEN group ELSE user]

EntityEnvs == {EnvOf(g, u) : g \in {Unset, <<>>, G1}, u \in {Unset, U1}}

ConfigInit ==
    /\ env \in EntityEnvs
    /\ \E args \in Queries : request = [path |-> <<>>, args |-> args]
    /\ pc = "idle"
    /\ config = <<>>
    /\ fetches = <<>>
    /\ data = <<>>
    /\ totals = RemoteTotals
    /\ children = <<>>
    /\ bibliography = <<>>
    /\ logs = <<>>
    /\ calls = <<>>
    /\ responses = <<>>
    /\ text = <<>>
    /\ outs = <<>>
    /\ warns = <<>>
    /\ dedupRaised = FALSE

\* lines 353-354 and 215-223
Configure ==
    /\ pc = "idle"
    /\ config' = MergeQuery(from_environment(env), request.args)
    /\ pc' = "configured"
    /\ UNCHANGED <<env, request, fetches, data, totals, children, bibliography, logs,
                   calls, responses, dedupVars>>

\* lines 97-101 and 278-295: the requests of the listing and of the library
\* of a valid configuration
RequestEntity ==
    /\ pc = "configured"
    /\ is_valid(config)
    /\ fetches' = <<NewFetch(CollectionsUrl(EntityType(config.is_user), config.group_id),
                             <<>>, DefaultLimit),
                    BibliographyFetch(config, config.collection_id)>>
    /\ pc' = "gather"
    /\ UNCHANGED <<env, request, config, data, totals, children, bibliography, logs,
                   calls, responses, dedupVars>>

ConfigNext == Configure \/ RequestEntity

SpecConfig == ConfigInit /\ [][ConfigNext]_vars

----------------------------------------------------------------------------
(* Claims about the entity, under SpecConfig *)

\* ZOTERO_GROUP is set and not empty
GroupSet == "ZOTERO_GROUP" \in DOMAIN env /\ env["ZOTERO_GROUP"] # <<>>

\* C27: the entity of the configuration is a group exactly when ZOTERO_GROUP
\* is set and not empty, with the id of ZOTERO_GROUP also when ZOTERO_USER is
\* set, and a user otherwise; a group_id query parameter gives the id and
\* leaves the kind as it is, so that the URLs say "groups" or "users" by the
\* environment alone.
C27_KindFromEnvironment ==
    pc # "idle" =>
        /\ config.is_user = ~GroupSet
        /\ config.group_id =
              IF "group_id" \in DOMAIN request.args THEN request.args["group_id"]
              ELSE IF GroupSet THEN env["ZOTERO_GROUP"]
              ELSE IF "ZOTERO_USER" \in DOMAIN env THEN env["ZOTERO_USER"]
              ELSE None
        /\ \A n \in 1..Len(fetches) :
              /\ fetches[n].url.entity_type = IF GroupSet THEN "groups" ELSE "users"
              /\ fetches[n].url.group_id = config.group_id

\* C27, its case: ZOTERO_GROUP and ZOTERO_USER are both set and the query has
\* a group_id; the URLs are those of the group of the query
C27_Witness ==
    /\ pc = "gather"
    /\ env = EnvOf(G1, U1)
    /\ "group_id" \in DOMAIN request.args
    /\ fetches[2].url = ItemsUrl("groups", request.args["group_id"], None)

----------------------------------------------------------------------------
(* Claims about a refused listing and about the key of the cache, under Spec *)

\* the records of the log added by the step
AddedRecords == SubSeq(logs', Len(logs) + 1, Len(logs'))

\* page 1 of a listing asked for in the step was answered with a status that
\* is not 200
ListingRefused ==
    \E i \in 1..Len(AddedRecords) :
        AddedRecords[i].msg = "Zotero API returned with code"

\* C28: when the path is looked up and the listing of the refresh is refused,
\* the index of the entity is empty afterwards, whatever it held before, and
\* the lookup fails as "Collection not found"; and a lookup of a path for an
\* entity whose index is empty makes a refresh.
C28_RefusedListingEmptiesIndex ==
    [][(pc = "update_from_request" /\ "get_collection_id" \in SeqRange(calls')) =>
        LET gid == config'.group_id
        IN  /\ ListingRefused =>
                /\ Count(calls', "update_from_remote") = 1
                /\ data'[gid] = <<>>
                /\ config'.failed_collection_lookup
                /\ \E i \in 1..Len(AddedRecords) :
                        /\ AddedRecords[i].msg = "Collection not found"
                        /\ AddedRecords[i].arg = request.path
                /\ \A g \in DOMAIN data : g # gid => data'[g] = data[g]
            /\ (gid \in DOMAIN data /\ data[gid] = <<>>) =>
                    Count(calls', "update_from_remote") = 1
      ]_vars

\* C28, its case: the lookup of a path of the remote found the listing
\* refused; the index of the group is empty and the request failed
C28_Witness ==
    /\ pc = "responded"
    /\ request.path = <<"A", "/", "B">>
    /\ calls = <<"get_collection_id", "update_from_remote">>
    /\ \E i \in 1..Len(logs) : logs[i].msg = "Zotero API returned with code"
    /\ G1 \in DOMAIN data
    /\ data[G1] = <<>>
    /\ config.failed_collection_lookup

----------------------------------------------------------------------------
(* Calls of get_collection_id (server.py 134-144) one after the other, for
   two entity ids, two API keys and both kinds. request holds the path of
   the call and, for the account of the claims, the configuration of the
   call that made the last refresh that returned. *)

CacheConfigs ==
    {[IndexConfig(None) EXCEPT !.group_id = g, !.key = k, !.is_user = u] :
        g \in {G1, U1}, k \in {Key1, Key2}, u \in BOOLEAN}

CacheInit ==
    /\ data = <<>>
    /\ pc = "idle"
    /\ config = IndexConfig(None)
    /\ request = [path |-> <<>>, refreshed_by |-> IndexConfig(None)]
    /\ calls = <<>>
    /\ totals = RemoteTotals
    /\ fetches = <<>>
    /\ env = <<>>
    /\ children = <<>>
    /\ bibliography = <<>>
    /\ logs = <<>>
    /\ responses = <<>>
    /\ text = <<>>
    /\ outs = <<>>
    /\ warns = <<>>
    /\ dedupRaised = FALSE

\* lines 142-144: one call, the listing of its refresh answered as f
LookupCall(cfg, path) ==
    /\ \E f \in RefreshResults(cfg) :
          LET r == get_collection_id(data, cfg, path, f)
          IN  /\ data' = r.data
              /\ calls' = r.calls
              /\ config' = [cfg EXCEPT !.collection_id = r.value]
              /\ pc' = IF r.exc = "none" THEN "returned" ELSE "raised"
              /\ request' = [path |-> path,
                             refreshed_by |->
                                 IF Len(r.calls) = 2 /\ f.stage = "returned"
                                 THEN cfg ELSE request.refreshed_by]
    /\ UNCHANGED <<totals, fetches, env, children, bibliography, logs, responses,
                   dedupVars>>

CacheNext == \E cfg \in CacheConfigs, path \in Paths \ {<<>>} : LookupCall(cfg, path)

SpecCache == CacheInit /\ [][CacheNext]_vars

----------------------------------------------------------------------------
(* Claims about the key of the cache, under SpecCache *)

\* C29: a call of get_collection_id for a path that is in the index cached
\* for its entity id returns the cached id without a refresh, whatever API
\* key and kind the call has and whatever key and kind the call had whose
\* refresh cached the path; and a call leaves the index of every other
\* entity id as it is.
C29_IndexKeyedByEntityId ==
    [][LET gid == config'.group_id
       IN  /\ Cached(data, gid, request'.path) =>
                /\ calls' = <<"get_collection_id">>
                /\ data' = data
                /\ pc' = "returned"
                /\ config'.collection_id = DictGet(data[gid], request'.path)
           /\ \A g \in DOMAIN data :
                g # gid => g \in DOMAIN data' /\ data'[g] = data[g]
      ]_vars

\* C29, its case: the path was cached by a call for the same entity id with
\* the other API key and the other kind, and the id is returned with no
\* refresh, while the other entity id has its index
C29_Witness ==
    /\ pc = "returned"
    /\ calls = <<"get_collection_id">>
    /\ request.path = <<"A", "/", "B">>
    /\ config.collection_id = C2
    /\ request.refreshed_by.group_id = config.group_id
    /\ request.refreshed_by.key # config.key
    /\ request.refreshed_by.is_user # config.is_user
    /\ DOMAIN data = {G1, U1}

----------------------------------------------------------------------------
(* Claims about the bibliography of the response, under Spec *)

\* C30: the bibliography of a GET response is empty when something raised
\* while the request was handled, and is otherwise the deduplicated join of
\* the results of all the request's fetches; a join that was not deduplicated
\* is never in a response.
C30_EmptyOrDeduplicated ==
    pc = "responded" =>
        IF Failed
        THEN responses[1].bibliography = <<>>
        ELSE /\ Assembled
             /\ responses[1].bibliography = remove_duplicates(text).text

\* what the code does: the bibliography is empty after every exception but
\* that of remove_duplicates, after which it is the join of line 397
C30_JoinKeptWhenDedupRaises ==
    pc = "responded" =>
        IF FailedWith("IndexError")
        THEN Assembled /\ responses[1].bibliography = text
        ELSE IF Failed
        THEN responses[1].bibliography = <<>>
        ELSE /\ Assembled
             /\ responses[1].bibliography = remove_duplicates(text).text

====
